---- MODULE Spec2Model ----
(***************************************************************************)
(* Background job subsystem of go-server-boilerplate:                      *)
(* internal/infrastructure/jobs/worker.go (Worker, Dispatcher).            *)
(*                                                                         *)
(* Threads of control:                                                     *)
(*   - callers: goroutines of the embedding program that call the          *)
(*     Dispatcher's methods Start, Stop(ctx) and DispatchJob(job);         *)
(*   - workers: one goroutine per Worker.Start, looping on a select over   *)
(*     the shared jobQueue channel and the worker's own quit channel;      *)
(*   - the waiter goroutine Dispatcher.Stop spawns around wg.Wait().       *)
(* Channel operations are the atomic steps.  An unbuffered send            *)
(* (w.quit <- true) is a rendezvous with the receiving select, a send on   *)
(* the buffered jobQueue needs a free slot.  d.isRunning is written under  *)
(* d.mu and read by DispatchJob without it: the read is a step of its own  *)
(* that sees whatever value the flag holds at that moment.                 *)
(***************************************************************************)
EXTENDS Naturals, Integers, Sequences, FiniteSets

\* ---------------------------------------------------------------- bounds
\* Largest worker count passed to NewDispatcher.
MaxWorkers == 2
\* Number of goroutines calling the Dispatcher's methods.
NumCallers == 2
\* Number of DispatchJob calls made in a run of Spec.
MaxJobs == 2
\* DispatchJob calls made beyond the queue capacity in a run of SpecFill.
ExtraJobs == 1
\* Number of ScheduledJob.Start calls that find the ScheduledJob stopped.
MaxSchedStarts == 2
\* Number of ticks the ScheduledJob's tickers deliver.
MaxTicks == 1
\* Largest number of handlers behind RoleRequired on a route.
MaxHandlers == 2
\* Number of rate.NewLimiter calls the GetLimiter calls of a run can make.
MaxLimiters == 3
\* Largest number of requests in flight at the same time.
MaxRequests == 4

\* ------------------------------------------------------------- constants
\* make(chan Job, 100)
QueueCap == 100

Callers == 1..NumCallers

VARIABLES
    maxWorkers,   \* Dispatcher.maxWorkers
    jobLimit,     \* number of DispatchJob calls the environment makes
    workerPool,   \* Dispatcher.workerPool: sequence of workers, each with its goroutine's state
    jobQueue,     \* Dispatcher.jobQueue: the buffered channel's contents
    wg,           \* Dispatcher.wg: the WaitGroup counter
    isRunning,    \* Dispatcher.isRunning
    mu,           \* Dispatcher.mu: 0 when free, else the caller holding it
    pc,           \* each caller's position
    arg,          \* each caller's job argument while inside DispatchJob (0: none)
    stopIdx,      \* Dispatcher.Stop: index of the next worker to signal
    ctxDone,      \* Dispatcher.Stop: whether the ctx argument is done (FALSE outside a call)
    ctxAtCall,    \* whether that ctx was already done when Stop was called
    stops,        \* number of Stop calls that found the Dispatcher running
    done,         \* Dispatcher.Stop: the done channel ("none", "open", "closed")
    stopBranch,   \* the select branch the last Stop returned through ("none", "ctx", "done")
    nextJob,      \* id of the next job handed to DispatchJob
    calls,        \* per job: its DispatchJob call: the flag's value when the call was made, the
                  \* value of stops then, and what the check decided ("accepted", "dropped")
    execCount,    \* per job: number of Execute invocations by workers
    execBy,       \* per job: pool indices of the workers that invoked Execute
    recvBy,       \* per job: pool indices of the workers that received it from jobQueue
    admitted,     \* the jobs admitted to jobQueue and not yet dequeued, oldest admission first
    failJobs,     \* the jobs whose Execute returns an error (the others return nil)
    deadlineFired, \* the jobs whose 5-minute execution deadline fired before Execute returned
    jobLog,       \* the worker's log lines after Execute: [job, level], level "error" or "info"
    runExecs,     \* per caller: Execute invocations made by its RunJob call under way
    lastRun,      \* the RunJob call that returned last: what Execute returned, what RunJob returned
    sIsRunning,   \* ScheduledJob.isRunning
    sMu,          \* ScheduledJob.mu: 0 when free, else the caller holding it
    sCancelled,   \* whether ScheduledJob.ctx is done (cancel has been called)
    tickerActive, \* whether ScheduledJob.ticker exists and has not been stopped
    tickPending,  \* whether a tick is buffered in ScheduledJob.ticker.C
    tickersMade,  \* number of time.NewTicker calls of Start
    ticksFired,   \* number of ticks delivered to a ticker's channel
    ticksAtStart, \* the value of ticksFired when the ticker in use was made
    loops,        \* the goroutines spawned by ScheduledJob.Start, each with its position
                  \* ("first", "send", "select", "exited") and the job it is sending
    sDispatched,  \* the jobWrappers made by dispatchJob, in the order of the calls
    header,       \* the request's Authorization header
    roles,        \* the roles given to RoleRequired
    handlers,     \* gin.Context.handlers: the route's handler chain
    index,        \* gin.Context.index: the handler being run (-1 before the first)
    aborted,      \* gin.Context.IsAborted()
    keys,         \* gin.Context.Keys["role"] ("unset" when absent)
    status,       \* the response status written (0: none yet)
    ran,          \* the handlers behind RoleRequired that have been run, in order
    stack,        \* the call stack of the goroutine serving the request
    ips,          \* IPRateLimiter.ips: per IP the limiter stored for it (0: no entry)
    iMu,          \* IPRateLimiter.mu: the goroutines holding the read lock, and the one
                  \* holding the write lock (0: none)
    getLimiter,   \* per goroutine its GetLimiter call: position, ip, and the locals limiter
                  \* and exists
    limitersMade, \* number of rate.NewLimiter calls made
    returnedLimiters, \* what the GetLimiter calls have returned: [ip, limiter]
    program,      \* the main function that runs: "cmd/main.go" or "cmd/api/main.go"
    mainPc,       \* position of the main goroutine
    inFlight,     \* the requests being served: the count of main's WaitGroup wg
    listening,    \* whether the HTTP server accepts new requests
    ctxCancelled, \* whether main's ctx has been cancelled (cancel())
    timeoutElapsed, \* whether shutdownCtx is done (the shutdown timeout has elapsed)
    waitChan,     \* main's waitChan ("none", "open", "closed")
    waitedFor,    \* the branch main's select returned through ("none", "requests", "timeout")
    dbClosed,     \* whether the database connection has been closed
    exitCode      \* the exit status of the process (-1 while it runs)

\* Dispatcher.RunJob
runVars == <<runExecs, lastRun>>

\* IPRateLimiter
limiterVars == <<ips, iMu, getLimiter, limitersMade, returnedLimiters>>

\* The server process: main
serverVars == <<program, mainPc, inFlight, listening, ctxCancelled, timeoutElapsed, waitChan,
                waitedFor, dbClosed, exitCode>>

\* The timers of the jobs' execution contexts, the rate limiter and the server
\* process, which no step of a caller, a worker, the ScheduledJob or the
\* request of AuthMiddleware writes.
restVars == <<deadlineFired, limiterVars, serverVars>>

\* Worker, Dispatcher and ScheduledJob: what serving a request leaves alone.
jobVars == <<maxWorkers, jobLimit, workerPool, jobQueue, wg, isRunning, mu, pc, arg, stopIdx,
             ctxDone, ctxAtCall, stops, done, stopBranch, nextJob, calls, execCount, execBy,
             recvBy, admitted, failJobs, jobLog, runExecs, lastRun, sIsRunning, sMu,
             sCancelled, tickerActive, tickPending, tickersMade, ticksFired, ticksAtStart,
             loops, sDispatched, restVars>>

\* ScheduledJob
schedVars == <<sIsRunning, sMu, sCancelled, tickerActive, tickPending, tickersMade,
               ticksFired, ticksAtStart, loops, sDispatched>>

\* The request served through AuthMiddleware
authVars == <<header, roles, handlers, index, aborted, keys, status, ran, stack>>

\* What the steps of Worker and Dispatcher (RunJob apart) neither read nor write.
otherVars == <<failJobs, restVars, runVars, schedVars, authVars>>

\* The variables added to the Dispatcher's own: the record of admissions, the
\* workers' log, the jobs' results, and otherVars.
extVars == <<admitted, jobLog, otherVars>>

vars == <<maxWorkers, jobLimit, workerPool, jobQueue, wg, isRunning, mu, pc, arg,
          stopIdx, ctxDone, ctxAtCall, stops, done, stopBranch, nextJob, calls, execCount,
          execBy, recvBy, extVars>>

\* Worker, Dispatcher, ScheduledJob and the request of AuthMiddleware, without
\* the timers and the rate limiter.
coreVars == <<maxWorkers, jobLimit, workerPool, jobQueue, wg, isRunning, mu, pc, arg, stopIdx,
              ctxDone, ctxAtCall, stops, done, stopBranch, nextJob, calls, execCount, execBy,
              recvBy, admitted, jobLog, failJobs, runVars, schedVars, authVars>>

dispVars == <<maxWorkers, jobLimit>>
histVars == <<calls, execCount, execBy, recvBy>>
stopVars == <<stopIdx, ctxDone, ctxAtCall, stops, done, stopBranch>>

\* ------------------------------------------------------------ construction
\* NewWorker: a worker with its id; its goroutine does not exist yet.
NewWorker(id) == [id |-> id, st |-> "select", job |-> 0]

\* NewDispatcher(maxWorkers): empty pool, empty queue, not running.
NewDispatcher(n, limit) ==
    /\ maxWorkers = n
    /\ jobLimit = limit
    /\ workerPool = << >>
    /\ jobQueue = << >>
    /\ wg = 0
    /\ isRunning = FALSE
    /\ mu = 0
    /\ pc = [c \in Callers |-> "idle"]
    /\ arg = [c \in Callers |-> 0]
    /\ stopIdx = 0
    /\ ctxDone = FALSE
    /\ ctxAtCall = FALSE
    /\ stops = 0
    /\ done = "none"
    /\ stopBranch = "none"
    /\ nextJob = 1
    /\ calls = << >>
    /\ execCount = << >>
    /\ execBy = << >>
    /\ recvBy = << >>
    /\ admitted = << >>

\* The results of the jobs' Execute, which the workers only log: the jobs of
\* failing return an error.  Nothing is logged yet, no deadline has fired.
JobsFailing(failing) ==
    /\ failJobs = failing
    /\ jobLog = {}
    /\ deadlineFired = {}

\* What a job's Execute returns to RunJob.
ExecuteResults == {"nil", "error"}

\* No RunJob call has been made.
NoRunJob ==
    /\ runExecs = [c \in Callers |-> 0]
    /\ lastRun = [executed |-> "none", returned |-> "none", execs |-> 0]

\* NewScheduledJob(name, interval, executeFunc, dispatcher): ctx and cancel are
\* made here, once; no ticker, no goroutine, not running.
NewScheduledJob ==
    /\ sIsRunning = FALSE
    /\ sMu = 0
    /\ sCancelled = FALSE
    /\ tickerActive = FALSE
    /\ tickPending = FALSE
    /\ tickersMade = 0
    /\ ticksFired = 0
    /\ ticksAtStart = 0
    /\ loops = << >>
    /\ sDispatched = << >>

\* The role names.
Roles == {"admin", "user"}

\* What jwtManager.ValidateToken can be given: a token that parses and verifies,
\* with the role of its claims, or one that does not.
Tokens == [valid : BOOLEAN, role : Roles]

\* The Authorization header of a request: absent, of another scheme, or Bearer.
Headers ==
    {[scheme |-> "none", token |-> [valid |-> FALSE, role |-> "user"]]}
        \cup [scheme : {"Basic", "Bearer"}, token : Tokens]

\* The entries of a handler chain.
AuthRequiredHandler == [name |-> "AuthRequired", n |-> 0]
RoleRequiredHandler == [name |-> "RoleRequired", n |-> 0]
RouteHandler(i) == [name |-> "handler", n |-> i]

\* gin.Context.Next, which is not a handler but has frames on the stack.
NextFunc == [name |-> "Next", n |-> 0]

\* The chain of a route guarded by RoleRequired with n handlers behind it, in
\* a group that uses AuthRequired (as setupRoutes builds it) or not.
Chain(inAuthGroup, n) ==
    (IF inAuthGroup THEN <<AuthRequiredHandler>> ELSE << >>)
        \o <<RoleRequiredHandler>> \o [i \in 1..n |-> RouteHandler(i)]

\* A frame of the call stack: the function and the position in it.
Frame(fn, at) == [fn |-> fn, at |-> at]

\* No request is being served.
NoRequest ==
    /\ header = [scheme |-> "none", token |-> [valid |-> FALSE, role |-> "user"]]
    /\ roles = {}
    /\ handlers = << >>
    /\ index = -1
    /\ aborted = FALSE
    /\ keys = "unset"
    /\ status = 0
    /\ ran = << >>
    /\ stack = << >>

\* The engine has matched the request to its route: the context is reset
\* (index -1, no keys, nothing written) and c.Next() is about to be called.
Request(h, rs, chain) ==
    /\ header = h
    /\ roles = rs
    /\ handlers = chain
    /\ index = -1
    /\ aborted = FALSE
    /\ keys = "unset"
    /\ status = 0
    /\ ran = << >>
    /\ stack = <<Frame(NextFunc, "entry")>>

\* The addresses c.ClientIP() gives.
IPs == {"10.0.0.1", "10.0.0.2"}

\* The locals of a goroutine that is not inside GetLimiter.
NoGetLimiter == [at |-> "idle", ip |-> "", limiter |-> 0, exists |-> FALSE]

\* NewIPRateLimiter(requests, duration): an empty map and a free RWMutex.
NewIPRateLimiter ==
    /\ ips = [ip \in IPs |-> 0]
    /\ iMu = [readers |-> {}, writer |-> 0]
    /\ getLimiter = [c \in Callers |-> NoGetLimiter]
    /\ limitersMade = 0
    /\ returnedLimiters = {}

\* The two main functions of the repository.
CmdMain == "cmd/main.go"
ApiMain == "cmd/api/main.go"

\* main has set up the router and the server, spawned the goroutine around
\* ListenAndServe, and waits for a signal (<-quit); no request is in flight.
ServerProcess(main) ==
    /\ program = main
    /\ mainPc = "serving"
    /\ inFlight = 0
    /\ listening = TRUE
    /\ ctxCancelled = FALSE
    /\ timeoutElapsed = FALSE
    /\ waitChan = "none"
    /\ waitedFor = "none"
    /\ dbClosed = FALSE
    /\ exitCode = -1

\* The first job handed to DispatchJob is one whose Execute returns an error.
Init ==
    /\ \E n \in 1..MaxWorkers : NewDispatcher(n, MaxJobs)
    /\ JobsFailing({1})
    /\ NoRunJob
    /\ NewScheduledJob
    /\ NoRequest
    /\ NewIPRateLimiter
    /\ ServerProcess(ApiMain)

\* ------------------------------------------------------------ Dispatcher.Start
\* d.mu.Lock() of Start
StartLock(c) ==
    /\ pc[c] = "idle"
    /\ mu = 0
    /\ mu' = c
    /\ pc' = [pc EXCEPT ![c] = "start"]
    /\ UNCHANGED <<dispVars, workerPool, jobQueue, wg, isRunning, arg, stopVars, nextJob, histVars>>
    /\ UNCHANGED extVars

\* The workers Start appends: ids 0..maxWorkers-1, each goroutine at its select.
SpawnedWorkers == [i \in 1..maxWorkers |-> NewWorker(i - 1)]

\* Mutant of StartBody: the isRunning test is missing, every Start spawns workers.
StartBodyNoGuard(c) ==
    /\ pc[c] = "start"
    /\ workerPool' = workerPool \o SpawnedWorkers
    /\ wg' = wg + maxWorkers
    /\ isRunning' = TRUE
    /\ mu' = 0
    /\ pc' = [pc EXCEPT ![c] = "idle"]
    /\ UNCHANGED <<dispVars, jobQueue, arg, stopVars, nextJob, histVars>>
    /\ UNCHANGED extVars

\* Mutant of StartBody: d.wg.Add(1) is called once, outside the loop over the
\* workers.
StartBodyAddOnce(c) ==
    /\ pc[c] = "start"
    /\ IF isRunning
         THEN UNCHANGED <<workerPool, wg, isRunning>>
         ELSE /\ workerPool' = workerPool \o SpawnedWorkers
              /\ wg' = wg + 1
              /\ isRunning' = TRUE
    /\ mu' = 0
    /\ pc' = [pc EXCEPT ![c] = "idle"]
    /\ UNCHANGED <<dispVars, jobQueue, arg, stopVars, nextJob, histVars>>
    /\ UNCHANGED extVars

\* Body of Start under the mutex, up to the deferred Unlock.
StartBody(c) ==
    /\ pc[c] = "start"
    /\ IF isRunning
         THEN UNCHANGED <<workerPool, wg, isRunning>>
         ELSE /\ workerPool' = workerPool \o SpawnedWorkers
              /\ wg' = wg + maxWorkers
              /\ isRunning' = TRUE
    /\ mu' = 0
    /\ pc' = [pc EXCEPT ![c] = "idle"]
    /\ UNCHANGED <<dispVars, jobQueue, arg, stopVars, nextJob, histVars>>
    /\ UNCHANGED extVars

\* ------------------------------------------------------------ Dispatcher.Stop
\* d.mu.Lock() of Stop; the caller passes a ctx that is already done or not.
StopLock(c) ==
    /\ pc[c] = "idle"
    /\ mu = 0
    /\ mu' = c
    /\ pc' = [pc EXCEPT ![c] = "stop"]
    /\ \E expired \in BOOLEAN :
          /\ ctxDone' = expired
          /\ ctxAtCall' = expired
    /\ UNCHANGED <<dispVars, workerPool, jobQueue, wg, isRunning, arg, stopIdx, stops, done,
                   stopBranch, nextJob, histVars>>
    /\ UNCHANGED extVars

\* if !d.isRunning { return }; otherwise enter the loop over d.workerPool.
StopCheck(c) ==
    /\ pc[c] = "stop"
    /\ IF ~isRunning
         THEN /\ mu' = 0
              /\ pc' = [pc EXCEPT ![c] = "idle"]
              /\ ctxDone' = FALSE
              /\ ctxAtCall' = FALSE
              /\ UNCHANGED <<stopIdx, stops>>
         ELSE /\ pc' = [pc EXCEPT ![c] = "stop_send"]
              /\ stopIdx' = 1
              /\ stops' = stops + 1
              /\ UNCHANGED <<mu, ctxDone, ctxAtCall>>
    /\ UNCHANGED <<dispVars, workerPool, jobQueue, wg, isRunning, arg, done, stopBranch,
                   nextJob, histVars>>
    /\ UNCHANGED extVars

\* Mutant of StopSend: a worker that is not at its select is passed over.
StopSendSkipsBusy(c) ==
    /\ pc[c] = "stop_send"
    /\ stopIdx <= Len(workerPool)
    /\ IF workerPool[stopIdx].st = "select"
         THEN workerPool' = [workerPool EXCEPT ![stopIdx].st = "quit"]
         ELSE UNCHANGED workerPool
    /\ stopIdx' = stopIdx + 1
    /\ UNCHANGED <<dispVars, jobQueue, wg, isRunning, mu, pc, arg, ctxDone, ctxAtCall,
                   stops, done, stopBranch, nextJob, histVars>>
    /\ UNCHANGED extVars

\* worker.Stop(): w.quit <- true on the unbuffered quit channel, received by the
\* worker's select (case <-w.quit).  The send completes only together with the
\* receive, so it needs the worker's goroutine to be at its select.
StopSend(c) ==
    /\ pc[c] = "stop_send"
    /\ stopIdx <= Len(workerPool)
    /\ workerPool[stopIdx].st = "select"
    /\ workerPool' = [workerPool EXCEPT ![stopIdx].st = "quit"]
    /\ stopIdx' = stopIdx + 1
    /\ UNCHANGED <<dispVars, jobQueue, wg, isRunning, mu, pc, arg, ctxDone, ctxAtCall,
                   stops, done, stopBranch, nextJob, histVars>>
    /\ UNCHANGED extVars

\* The loop over the pool is over: done := make(chan struct{}) and the goroutine
\* around d.wg.Wait() is spawned; Stop reaches its select.
StopSpawnWait(c) ==
    /\ pc[c] = "stop_send"
    /\ stopIdx > Len(workerPool)
    /\ done' = "open"
    /\ pc' = [pc EXCEPT ![c] = "stop_wait"]
    /\ UNCHANGED <<dispVars, workerPool, jobQueue, wg, isRunning, mu, arg, stopIdx, ctxDone,
                   ctxAtCall, stops, stopBranch, nextJob, histVars>>
    /\ UNCHANGED extVars

\* go func() { d.wg.Wait(); close(done) }()
WaiterClose ==
    /\ done = "open"
    /\ wg = 0
    /\ done' = "closed"
    /\ UNCHANGED <<dispVars, workerPool, jobQueue, wg, isRunning, mu, pc, arg, stopIdx,
                   ctxDone, ctxAtCall, stops, stopBranch, nextJob, histVars>>
    /\ UNCHANGED extVars

\* The caller's ctx becomes done (deadline or cancel) while Stop is in progress.
CtxExpire ==
    /\ \E c \in Callers : pc[c] \in {"stop", "stop_send", "stop_wait"}
    /\ ~ctxDone
    /\ ctxDone' = TRUE
    /\ UNCHANGED <<dispVars, workerPool, jobQueue, wg, isRunning, mu, pc, arg, stopIdx,
                   ctxAtCall, stops, done, stopBranch, nextJob, histVars>>
    /\ UNCHANGED extVars

\* select { case <-ctx.Done(): ... case <-done: ... }; d.isRunning = false; Unlock.
\* A waiter goroutine left behind by the ctx branch only closes a channel nobody
\* reads any more; it is dropped from the state.
StopReturn(c) ==
    /\ pc[c] = "stop_wait"
    /\ \E branch \in {"ctx", "done"} :
          /\ branch = "ctx" => ctxDone
          /\ branch = "done" => done = "closed"
          /\ stopBranch' = branch
    /\ isRunning' = FALSE
    /\ done' = "none"
    /\ stopIdx' = 0
    /\ ctxDone' = FALSE
    /\ ctxAtCall' = FALSE
    /\ mu' = 0
    /\ pc' = [pc EXCEPT ![c] = "idle"]
    /\ UNCHANGED <<dispVars, workerPool, jobQueue, wg, arg, stops, nextJob, histVars>>
    /\ UNCHANGED extVars

\* ------------------------------------------------------------ Worker.Start
\* The sequence without the job j.
Without(seq, j) == SelectSeq(seq, LAMBDA x : x # j)

\* if err != nil { logger.Error("Failed to process job") } else
\* { logger.Info("Job completed successfully") }
LogLine(job) == [job |-> job, level |-> IF job \in failJobs THEN "error" ELSE "info"]

\* Mutant of WorkerReceive: the worker takes the job admitted last.
WorkerReceiveLast(w) ==
    /\ w \in 1..Len(workerPool)
    /\ workerPool[w].st = "select"
    /\ jobQueue # << >>
    /\ LET job == jobQueue[Len(jobQueue)] IN
          /\ jobQueue' = SubSeq(jobQueue, 1, Len(jobQueue) - 1)
          /\ workerPool' = [workerPool EXCEPT ![w].st = "exec", ![w].job = job]
          /\ recvBy' = [recvBy EXCEPT ![job] = @ \cup {w}]
          /\ execBy' = [execBy EXCEPT ![job] = @ \cup {w}]
          /\ execCount' = [execCount EXCEPT ![job] = @ + 1]
          /\ admitted' = Without(admitted, job)
    /\ UNCHANGED <<dispVars, wg, isRunning, mu, pc, arg, stopVars, nextJob, calls>>
    /\ UNCHANGED <<jobLog, otherVars>>

\* Mutant of WorkerReceive: the job is read but stays at the head of the channel.
WorkerReceivePeek(w) ==
    /\ w \in 1..Len(workerPool)
    /\ workerPool[w].st = "select"
    /\ jobQueue # << >>
    /\ LET job == Head(jobQueue) IN
          /\ workerPool' = [workerPool EXCEPT ![w].st = "exec", ![w].job = job]
          /\ recvBy' = [recvBy EXCEPT ![job] = @ \cup {w}]
          /\ execBy' = [execBy EXCEPT ![job] = @ \cup {w}]
          /\ execCount' = [execCount EXCEPT ![job] = @ + 1]
          /\ admitted' = Without(admitted, job)
    /\ UNCHANGED <<dispVars, jobQueue, wg, isRunning, mu, pc, arg, stopVars, nextJob, calls>>
    /\ UNCHANGED <<jobLog, otherVars>>

\* case job := <-w.jobQueue: the worker takes the head of the channel and calls
\* job.Execute(ctx) itself.
WorkerReceive(w) ==
    /\ w \in 1..Len(workerPool)
    /\ workerPool[w].st = "select"
    /\ jobQueue # << >>
    /\ LET job == Head(jobQueue) IN
          /\ jobQueue' = Tail(jobQueue)
          /\ workerPool' = [workerPool EXCEPT ![w].st = "exec", ![w].job = job]
          /\ recvBy' = [recvBy EXCEPT ![job] = @ \cup {w}]
          /\ execBy' = [execBy EXCEPT ![job] = @ \cup {w}]
          /\ execCount' = [execCount EXCEPT ![job] = @ + 1]
          /\ admitted' = Without(admitted, job)
    /\ UNCHANGED <<dispVars, wg, isRunning, mu, pc, arg, stopVars, nextJob, calls>>
    /\ UNCHANGED <<jobLog, otherVars>>

\* Mutant of WorkerFinish: the goroutine returns after its first job instead of
\* looping back to the select.
WorkerFinishReturns(w) ==
    /\ w \in 1..Len(workerPool)
    /\ workerPool[w].st = "exec"
    /\ workerPool' = [workerPool EXCEPT ![w].st = "quit", ![w].job = 0]
    /\ jobLog' = jobLog \cup {LogLine(workerPool[w].job)}
    /\ UNCHANGED <<dispVars, jobQueue, wg, isRunning, mu, pc, arg, stopVars, nextJob, histVars>>
    /\ UNCHANGED <<admitted, otherVars>>

\* Mutant of WorkerFinish: a job whose Execute returned an error is put back on
\* the queue to be tried again.
WorkerFinishRetry(w) ==
    /\ w \in 1..Len(workerPool)
    /\ workerPool[w].st = "exec"
    /\ workerPool' = [workerPool EXCEPT ![w].st = "select", ![w].job = 0]
    /\ jobLog' = jobLog \cup {LogLine(workerPool[w].job)}
    /\ IF workerPool[w].job \in failJobs /\ Len(jobQueue) < QueueCap
         THEN /\ jobQueue' = Append(jobQueue, workerPool[w].job)
              /\ admitted' = Append(admitted, workerPool[w].job)
         ELSE UNCHANGED <<jobQueue, admitted>>
    /\ UNCHANGED <<dispVars, wg, isRunning, mu, pc, arg, stopVars, nextJob, histVars>>
    /\ UNCHANGED otherVars

\* job.Execute returns (nil or an error, both only logged); back to the select.
WorkerFinish(w) ==
    /\ w \in 1..Len(workerPool)
    /\ workerPool[w].st = "exec"
    /\ workerPool' = [workerPool EXCEPT ![w].st = "select", ![w].job = 0]
    /\ jobLog' = jobLog \cup {LogLine(workerPool[w].job)}
    /\ UNCHANGED <<dispVars, jobQueue, wg, isRunning, mu, pc, arg, stopVars, nextJob, histVars>>
    /\ UNCHANGED <<admitted, otherVars>>

\* Mutant of WorkerExit: a worker that has taken its stop signal drains the
\* queue before it returns.
WorkerExitDrains(w) ==
    /\ w \in 1..Len(workerPool)
    /\ workerPool[w].st = "quit"
    /\ IF jobQueue # << >>
         THEN /\ jobQueue' = Tail(jobQueue)
              /\ recvBy' = [recvBy EXCEPT ![Head(jobQueue)] = @ \cup {w}]
              /\ execBy' = [execBy EXCEPT ![Head(jobQueue)] = @ \cup {w}]
              /\ execCount' = [execCount EXCEPT ![Head(jobQueue)] = @ + 1]
              /\ admitted' = Without(admitted, Head(jobQueue))
              /\ UNCHANGED <<workerPool, wg>>
         ELSE /\ workerPool' = [workerPool EXCEPT ![w].st = "exited"]
              /\ wg' = wg - 1
              /\ UNCHANGED <<jobQueue, recvBy, execBy, execCount, admitted>>
    /\ UNCHANGED <<dispVars, isRunning, mu, pc, arg, stopVars, nextJob, calls>>
    /\ UNCHANGED <<jobLog, otherVars>>

\* The deadline of context.WithTimeout(context.Background(), 5*time.Minute)
\* fires while job.Execute(ctx) has not returned: ctx.Done() is closed, which
\* only the job can look at.  The worker's goroutine is inside Execute.
DeadlineFire(w) ==
    /\ w \in 1..Len(workerPool)
    /\ workerPool[w].st = "exec"
    /\ workerPool[w].job \notin deadlineFired
    /\ deadlineFired' = deadlineFired \cup {workerPool[w].job}
    /\ UNCHANGED <<coreVars, limiterVars, serverVars>>

\* case <-w.quit: return, which runs the deferred w.wg.Done().
WorkerExit(w) ==
    /\ w \in 1..Len(workerPool)
    /\ workerPool[w].st = "quit"
    /\ workerPool' = [workerPool EXCEPT ![w].st = "exited"]
    /\ wg' = wg - 1
    /\ UNCHANGED <<dispVars, jobQueue, isRunning, mu, pc, arg, stopVars, nextJob, histVars>>
    /\ UNCHANGED extVars

\* ------------------------------------------------------------ Dispatcher.DispatchJob
\* What is recorded of a DispatchJob call when it is made.
CallRecord(decision) == [running |-> isRunning, stops |-> stops, fate |-> decision]

\* Mutant of DispatchCheck: the isRunning test is missing, every job goes on to
\* the send.
DispatchCheckNoGate(c) ==
    /\ pc[c] = "idle"
    /\ nextJob <= jobLimit
    /\ nextJob' = nextJob + 1
    /\ execCount' = Append(execCount, 0)
    /\ execBy' = Append(execBy, {})
    /\ recvBy' = Append(recvBy, {})
    /\ calls' = Append(calls, CallRecord(IF isRunning THEN "accepted" ELSE "dropped"))
    /\ pc' = [pc EXCEPT ![c] = "dispatch_send"]
    /\ arg' = [arg EXCEPT ![c] = nextJob]
    /\ UNCHANGED <<dispVars, workerPool, jobQueue, wg, isRunning, mu, stopVars>>
    /\ UNCHANGED extVars

\* if !d.isRunning { warn; return }: the unsynchronised read of the flag.
DispatchCheck(c) ==
    /\ pc[c] = "idle"
    /\ nextJob <= jobLimit
    /\ nextJob' = nextJob + 1
    /\ execCount' = Append(execCount, 0)
    /\ execBy' = Append(execBy, {})
    /\ recvBy' = Append(recvBy, {})
    /\ IF ~isRunning
         THEN /\ calls' = Append(calls, CallRecord("dropped"))
              /\ UNCHANGED <<pc, arg>>
         ELSE /\ calls' = Append(calls, CallRecord("accepted"))
              /\ pc' = [pc EXCEPT ![c] = "dispatch_send"]
              /\ arg' = [arg EXCEPT ![c] = nextJob]
    /\ UNCHANGED <<dispVars, workerPool, jobQueue, wg, isRunning, mu, stopVars>>
    /\ UNCHANGED extVars

\* Mutant of DispatchSend: the send does not wait for a free slot.
DispatchSendUnbounded(c) ==
    /\ pc[c] = "dispatch_send"
    /\ jobQueue' = Append(jobQueue, arg[c])
    /\ admitted' = Append(admitted, arg[c])
    /\ pc' = [pc EXCEPT ![c] = "idle"]
    /\ arg' = [arg EXCEPT ![c] = 0]
    /\ UNCHANGED <<dispVars, workerPool, wg, isRunning, mu, stopVars, nextJob, histVars>>
    /\ UNCHANGED <<jobLog, otherVars>>

\* d.jobQueue <- job: blocks while the channel holds cap(jobQueue) jobs.
DispatchSend(c) ==
    /\ pc[c] = "dispatch_send"
    /\ Len(jobQueue) < QueueCap
    /\ jobQueue' = Append(jobQueue, arg[c])
    /\ admitted' = Append(admitted, arg[c])
    /\ pc' = [pc EXCEPT ![c] = "idle"]
    /\ arg' = [arg EXCEPT ![c] = 0]
    /\ UNCHANGED <<dispVars, workerPool, wg, isRunning, mu, stopVars, nextJob, histVars>>
    /\ UNCHANGED <<jobLog, otherVars>>

\* ------------------------------------------------------------ Dispatcher.RunJob
\* Mutant of RunJobCall: the call registers with the WaitGroup as a worker does.
RunJobCallCounted(c) ==
    /\ pc[c] = "idle"
    /\ pc' = [pc EXCEPT ![c] = "run_exec"]
    /\ runExecs' = [runExecs EXCEPT ![c] = @ + 1]
    /\ wg' = wg + 1
    /\ UNCHANGED <<dispVars, workerPool, jobQueue, isRunning, mu, arg, stopVars, nextJob,
                   histVars, admitted, jobLog, failJobs, restVars, lastRun, schedVars, authVars>>

\* RunJob is called: the caller's goroutine logs and calls job.Execute(ctx)
\* itself.  No field of the Dispatcher is read or written.
RunJobCall(c) ==
    /\ pc[c] = "idle"
    /\ pc' = [pc EXCEPT ![c] = "run_exec"]
    /\ runExecs' = [runExecs EXCEPT ![c] = @ + 1]
    /\ UNCHANGED <<dispVars, workerPool, jobQueue, wg, isRunning, mu, arg, stopVars, nextJob,
                   histVars, admitted, jobLog, failJobs, restVars, lastRun, schedVars, authVars>>

\* Mutant of RunJobReturn: the error of Execute is logged and nil is returned.
RunJobReturnNil(c) ==
    /\ pc[c] = "run_exec"
    /\ \E result \in ExecuteResults :
          lastRun' = [executed |-> result, returned |-> "nil", execs |-> runExecs[c]]
    /\ runExecs' = [runExecs EXCEPT ![c] = 0]
    /\ pc' = [pc EXCEPT ![c] = "idle"]
    /\ UNCHANGED <<dispVars, workerPool, jobQueue, wg, isRunning, mu, arg, stopVars, nextJob,
                   histVars, admitted, jobLog, failJobs, restVars, schedVars, authVars>>

\* return job.Execute(ctx): Execute returns nil or an error, and RunJob returns
\* that value.
RunJobReturn(c) ==
    /\ pc[c] = "run_exec"
    /\ \E result \in ExecuteResults :
          lastRun' = [executed |-> result, returned |-> result, execs |-> runExecs[c]]
    /\ runExecs' = [runExecs EXCEPT ![c] = 0]
    /\ pc' = [pc EXCEPT ![c] = "idle"]
    /\ UNCHANGED <<dispVars, workerPool, jobQueue, wg, isRunning, mu, arg, stopVars, nextJob,
                   histVars, admitted, jobLog, failJobs, restVars, schedVars, authVars>>

\* ------------------------------------------------------------ ScheduledJob
\* The name and the executeFunc given to NewScheduledJob.
sName == "name"
sExecuteFunc == "executeFunc"

\* Indices of the goroutines spawned by Start.
LoopIndices == 1..MaxSchedStarts

\* s.mu.Lock() of Start.  (A Start that would spawn more than MaxSchedStarts
\* goroutines in all is not made.)
SStartLock(c) ==
    /\ pc[c] = "idle"
    /\ sMu = 0
    /\ sIsRunning \/ Len(loops) < MaxSchedStarts
    /\ sMu' = c
    /\ pc' = [pc EXCEPT ![c] = "sstart"]
    /\ UNCHANGED <<dispVars, workerPool, jobQueue, wg, isRunning, mu, arg, stopVars, nextJob,
                   histVars, admitted, jobLog, failJobs, restVars, runVars, authVars>>
    /\ UNCHANGED <<sIsRunning, sCancelled, tickerActive, tickPending, tickersMade, ticksFired,
                   ticksAtStart, loops, sDispatched>>

\* Mutant of SStartBody: the isRunning test is missing.
SStartBodyNoGuard(c) ==
    /\ pc[c] = "sstart"
    /\ IF Len(loops) < MaxSchedStarts
         THEN /\ tickerActive' = TRUE
              /\ tickPending' = FALSE
              /\ tickersMade' = tickersMade + 1
              /\ ticksAtStart' = ticksFired
              /\ sIsRunning' = TRUE
              /\ loops' = Append(loops, [st |-> "first", job |-> 0])
         ELSE UNCHANGED <<tickerActive, tickPending, tickersMade, ticksAtStart, sIsRunning,
                          loops>>
    /\ sMu' = 0
    /\ pc' = [pc EXCEPT ![c] = "idle"]
    /\ UNCHANGED <<dispVars, workerPool, jobQueue, wg, isRunning, mu, arg, stopVars, nextJob,
                   histVars, admitted, jobLog, failJobs, restVars, runVars, authVars>>
    /\ UNCHANGED <<sCancelled, ticksFired, sDispatched>>

\* Body of Start under s.mu: if running, return; else s.ticker =
\* time.NewTicker(s.interval), s.isRunning = true, and the goroutine is spawned,
\* which has yet to make its first dispatchJob call; then the deferred Unlock.
SStartBody(c) ==
    /\ pc[c] = "sstart"
    /\ IF sIsRunning
         THEN UNCHANGED <<tickerActive, tickPending, tickersMade, ticksAtStart, sIsRunning,
                          loops>>
         ELSE /\ tickerActive' = TRUE
              /\ tickPending' = FALSE
              /\ tickersMade' = tickersMade + 1
              /\ ticksAtStart' = ticksFired
              /\ sIsRunning' = TRUE
              /\ loops' = Append(loops, [st |-> "first", job |-> 0])
    /\ sMu' = 0
    /\ pc' = [pc EXCEPT ![c] = "idle"]
    /\ UNCHANGED <<dispVars, workerPool, jobQueue, wg, isRunning, mu, arg, stopVars, nextJob,
                   histVars, admitted, jobLog, failJobs, restVars, runVars, authVars>>
    /\ UNCHANGED <<sCancelled, ticksFired, sDispatched>>

\* s.mu.Lock() of Stop
SStopLock(c) ==
    /\ pc[c] = "idle"
    /\ sMu = 0
    /\ sMu' = c
    /\ pc' = [pc EXCEPT ![c] = "sstop"]
    /\ UNCHANGED <<dispVars, workerPool, jobQueue, wg, isRunning, mu, arg, stopVars, nextJob,
                   histVars, admitted, jobLog, failJobs, restVars, runVars, authVars>>
    /\ UNCHANGED <<sIsRunning, sCancelled, tickerActive, tickPending, tickersMade, ticksFired,
                   ticksAtStart, loops, sDispatched>>

\* Body of Stop under s.mu: if not running, return; else s.ticker.Stop() (a tick
\* already in the channel stays there), s.cancel(), s.isRunning = false; then the
\* deferred Unlock.
SStopBody(c) ==
    /\ pc[c] = "sstop"
    /\ IF ~sIsRunning
         THEN UNCHANGED <<tickerActive, sCancelled, sIsRunning>>
         ELSE /\ tickerActive' = FALSE
              /\ sCancelled' = TRUE
              /\ sIsRunning' = FALSE
    /\ sMu' = 0
    /\ pc' = [pc EXCEPT ![c] = "idle"]
    /\ UNCHANGED <<dispVars, workerPool, jobQueue, wg, isRunning, mu, arg, stopVars, nextJob,
                   histVars, admitted, jobLog, failJobs, restVars, runVars, authVars>>
    /\ UNCHANGED <<tickPending, tickersMade, ticksFired, ticksAtStart, loops, sDispatched>>

\* The ticker's interval elapses: a tick is put in the channel s.ticker.C, which
\* buffers one tick.  (A tick that finds the channel full is dropped and changes
\* nothing.)
Tick ==
    /\ tickerActive
    /\ ~tickPending
    /\ ticksFired < MaxTicks
    /\ tickPending' = TRUE
    /\ ticksFired' = ticksFired + 1
    /\ UNCHANGED <<dispVars, workerPool, jobQueue, wg, isRunning, mu, pc, arg, stopVars,
                   nextJob, histVars, admitted, jobLog, failJobs, restVars, runVars, authVars>>
    /\ UNCHANGED <<sIsRunning, sMu, sCancelled, tickerActive, tickersMade, ticksAtStart, loops,
                   sDispatched>>

\* dispatchJob: a jobWrapper with a fresh id (uuid.New()), the ScheduledJob's
\* name and executeFunc, handed to s.dispatcher.DispatchJob, which reads
\* d.isRunning and either drops the job and returns, or goes on to its send.
LoopDispatchJob(l) ==
    /\ nextJob' = nextJob + 1
    /\ sDispatched' = Append(sDispatched, [id |-> nextJob, name |-> sName,
                                            execute |-> sExecuteFunc, ticker |-> tickersMade])
    /\ execCount' = Append(execCount, 0)
    /\ execBy' = Append(execBy, {})
    /\ recvBy' = Append(recvBy, {})
    /\ IF ~isRunning
         THEN /\ calls' = Append(calls, CallRecord("dropped"))
              /\ loops' = [loops EXCEPT ![l] = [st |-> "select", job |-> 0]]
         ELSE /\ calls' = Append(calls, CallRecord("accepted"))
              /\ loops' = [loops EXCEPT ![l] = [st |-> "send", job |-> nextJob]]
    /\ UNCHANGED <<dispVars, workerPool, jobQueue, wg, isRunning, mu, pc, arg, stopVars,
                   admitted, jobLog, failJobs, restVars, runVars, authVars>>
    /\ UNCHANGED <<sIsRunning, sMu, sCancelled, tickerActive, tickersMade, ticksFired,
                   ticksAtStart>>

\* Mutant of LoopFirst: the goroutine goes to its select without the dispatchJob
\* call before the loop.
LoopFirstWaits(l) ==
    /\ l \in 1..Len(loops)
    /\ loops[l].st = "first"
    /\ loops' = [loops EXCEPT ![l] = [st |-> "select", job |-> 0]]
    /\ UNCHANGED <<dispVars, workerPool, jobQueue, wg, isRunning, mu, pc, arg, stopVars,
                   nextJob, histVars, admitted, jobLog, failJobs, restVars, runVars, authVars>>
    /\ UNCHANGED <<sIsRunning, sMu, sCancelled, tickerActive, tickPending, tickersMade,
                   ticksFired, ticksAtStart, sDispatched>>

\* The goroutine's first statement: s.dispatchJob() ("Run immediately on start").
LoopFirst(l) ==
    /\ l \in 1..Len(loops)
    /\ loops[l].st = "first"
    /\ LoopDispatchJob(l)
    /\ UNCHANGED tickPending

\* case <-s.ticker.C: s.dispatchJob().  s.ticker is read on every pass of the
\* select, so every goroutine of the ScheduledJob receives from the ticker made
\* last.
LoopTick(l) ==
    /\ l \in 1..Len(loops)
    /\ loops[l].st = "select"
    /\ tickPending
    /\ tickPending' = FALSE
    /\ LoopDispatchJob(l)

\* d.jobQueue <- job inside DispatchJob: blocks while the channel is full; then
\* DispatchJob and dispatchJob return and the goroutine is at its select.
LoopSend(l) ==
    /\ l \in 1..Len(loops)
    /\ loops[l].st = "send"
    /\ Len(jobQueue) < QueueCap
    /\ jobQueue' = Append(jobQueue, loops[l].job)
    /\ admitted' = Append(admitted, loops[l].job)
    /\ loops' = [loops EXCEPT ![l] = [st |-> "select", job |-> 0]]
    /\ UNCHANGED <<dispVars, workerPool, wg, isRunning, mu, pc, arg, stopVars, nextJob,
                   histVars, jobLog, failJobs, restVars, runVars, authVars>>
    /\ UNCHANGED <<sIsRunning, sMu, sCancelled, tickerActive, tickPending, tickersMade,
                   ticksFired, ticksAtStart, sDispatched>>

\* case <-s.ctx.Done(): log and return.
LoopExit(l) ==
    /\ l \in 1..Len(loops)
    /\ loops[l].st = "select"
    /\ sCancelled
    /\ loops' = [loops EXCEPT ![l] = [st |-> "exited", job |-> 0]]
    /\ UNCHANGED <<dispVars, workerPool, jobQueue, wg, isRunning, mu, pc, arg, stopVars,
                   nextJob, histVars, admitted, jobLog, failJobs, restVars, runVars, authVars>>
    /\ UNCHANGED <<sIsRunning, sMu, sCancelled, tickerActive, tickPending, tickersMade,
                   ticksFired, ticksAtStart, sDispatched>>

LoopStep(l) ==
    \/ LoopFirst(l)
    \/ LoopTick(l)
    \/ LoopSend(l)
    \/ LoopExit(l)

\* ------------------------------------------------------------ AuthMiddleware
\* The frame on top of the stack, the stack without it, the stack with it
\* replaced.
Top == stack[Len(stack)]
Pop == SubSeq(stack, 1, Len(stack) - 1)
SetTop(frame) == [stack EXCEPT ![Len(stack)] = frame]

\* jwtManager.ValidateToken(parts[1]): the claims, or an error.
ValidateToken(token) ==
    IF token.valid THEN [err |-> FALSE, role |-> token.role]
                   ELSE [err |-> TRUE, role |-> ""]

\* The response status after c.JSON(code, ...): the first status written stays.
Written(code) == IF status = 0 THEN code ELSE status

\* c.Next(): c.index++
NextEnter ==
    /\ stack # << >>
    /\ Top = Frame(NextFunc, "entry")
    /\ index' = index + 1
    /\ stack' = SetTop(Frame(NextFunc, "loop"))
    /\ UNCHANGED <<jobVars, header, roles, handlers, aborted, keys, status, ran>>

\* c.Next(): for c.index < len(c.handlers) { c.handlers[c.index](c) ... }.  Abort
\* sets the index past every chain, which ends the loop.
NextCall ==
    /\ stack # << >>
    /\ Top = Frame(NextFunc, "loop")
    /\ ~aborted
    /\ index < Len(handlers)
    /\ stack' = Append(SetTop(Frame(NextFunc, "called")), Frame(handlers[index + 1], "start"))
    /\ UNCHANGED <<jobVars, header, roles, handlers, index, aborted, keys, status, ran>>

\* c.Next(): ... c.index++ } after the handler called has returned
NextAdvance ==
    /\ stack # << >>
    /\ Top = Frame(NextFunc, "called")
    /\ index' = index + 1
    /\ stack' = SetTop(Frame(NextFunc, "loop"))
    /\ UNCHANGED <<jobVars, header, roles, handlers, aborted, keys, status, ran>>

\* c.Next() returns: the loop condition is false.
NextReturn ==
    /\ stack # << >>
    /\ Top = Frame(NextFunc, "loop")
    /\ aborted \/ index >= Len(handlers)
    /\ stack' = Pop
    /\ UNCHANGED <<jobVars, header, roles, handlers, index, aborted, keys, status, ran>>

\* AuthRequired: no header, no "Bearer <token>", or a token that does not
\* validate: AbortWithStatusJSON(401) and return; otherwise the claims are
\* stored (c.Set("role", claims.Role)) and c.Next() is called.
AuthRequiredRun ==
    /\ stack # << >>
    /\ Top = Frame(AuthRequiredHandler, "start")
    /\ IF \/ header.scheme = "none"
          \/ header.scheme # "Bearer"
          \/ ValidateToken(header.token).err
         THEN /\ aborted' = TRUE
              /\ status' = Written(401)
              /\ stack' = Pop
              /\ UNCHANGED keys
         ELSE /\ keys' = ValidateToken(header.token).role
              /\ stack' = Append(SetTop(Frame(AuthRequiredHandler, "after_next")),
                                 Frame(NextFunc, "entry"))
              /\ UNCHANGED <<aborted, status>>
    /\ UNCHANGED <<jobVars, header, roles, handlers, index, ran>>

\* AuthRequired returns after its c.Next().
AuthRequiredReturn ==
    /\ stack # << >>
    /\ Top = Frame(AuthRequiredHandler, "after_next")
    /\ stack' = Pop
    /\ UNCHANGED <<jobVars, header, roles, handlers, index, aborted, keys, status, ran>>

\* RoleRequired: m.AuthRequired()(c)
RoleRequiredCallAuth ==
    /\ stack # << >>
    /\ Top = Frame(RoleRequiredHandler, "start")
    /\ stack' = Append(SetTop(Frame(RoleRequiredHandler, "after_auth")),
                       Frame(AuthRequiredHandler, "start"))
    /\ UNCHANGED <<jobVars, header, roles, handlers, index, aborted, keys, status, ran>>

\* RoleRequired after AuthRequired has returned: return if aborted; 403 if there
\* is no role; c.Next() and return if the role is one of roles; else 403.
RoleRequiredCheck ==
    /\ stack # << >>
    /\ Top = Frame(RoleRequiredHandler, "after_auth")
    /\ IF aborted
         THEN /\ stack' = Pop
              /\ UNCHANGED <<aborted, status>>
         ELSE IF keys = "unset"
         THEN /\ aborted' = TRUE
              /\ status' = Written(403)
              /\ stack' = Pop
         ELSE IF keys \in roles
         THEN /\ stack' = Append(SetTop(Frame(RoleRequiredHandler, "after_next")),
                                 Frame(NextFunc, "entry"))
              /\ UNCHANGED <<aborted, status>>
         ELSE /\ aborted' = TRUE
              /\ status' = Written(403)
              /\ stack' = Pop
    /\ UNCHANGED <<jobVars, header, roles, handlers, index, keys, ran>>

\* RoleRequired returns after its c.Next().
RoleRequiredReturn ==
    /\ stack # << >>
    /\ Top = Frame(RoleRequiredHandler, "after_next")
    /\ stack' = Pop
    /\ UNCHANGED <<jobVars, header, roles, handlers, index, aborted, keys, status, ran>>

\* A handler of the route runs, writes its response and returns.
HandlerRun ==
    /\ stack # << >>
    /\ Top.at = "start"
    /\ Top.fn \in {RouteHandler(i) : i \in 1..MaxHandlers}
    /\ ran' = Append(ran, Top.fn.n)
    /\ status' = Written(200)
    /\ stack' = Pop
    /\ UNCHANGED <<jobVars, header, roles, handlers, index, aborted, keys>>

\* ------------------------------------------------------------ IPRateLimiter
\* i.mu.RLock() of GetLimiter(ip): waits while a goroutine holds the write lock.
\* (A call is made only while the calls under way and the limiters made so far
\* stay within MaxLimiters.)
GetLimiterRLock(c, ip) ==
    /\ getLimiter[c].at = "idle"
    /\ limitersMade + Cardinality({d \in Callers : getLimiter[d].at # "idle"}) < MaxLimiters
    /\ iMu.writer = 0
    /\ iMu' = [iMu EXCEPT !.readers = @ \cup {c}]
    /\ getLimiter' = [getLimiter EXCEPT ![c] = [NoGetLimiter EXCEPT !.at = "rlocked", !.ip = ip]]
    /\ UNCHANGED <<coreVars, deadlineFired, serverVars, ips, limitersMade, returnedLimiters>>

\* limiter, exists := i.ips[ip]; i.mu.RUnlock(); if !exists { ... }
GetLimiterRead(c) ==
    /\ getLimiter[c].at = "rlocked"
    /\ LET exists == ips[getLimiter[c].ip] # 0 IN
          getLimiter' = [getLimiter EXCEPT ![c].limiter = ips[getLimiter[c].ip],
                                           ![c].exists = exists,
                                           ![c].at = IF exists THEN "return" ELSE "lock"]
    /\ iMu' = [iMu EXCEPT !.readers = @ \ {c}]
    /\ UNCHANGED <<coreVars, deadlineFired, serverVars, ips, limitersMade, returnedLimiters>>

\* i.mu.Lock(): waits while any goroutine holds the lock, for reading or writing.
GetLimiterLock(c) ==
    /\ getLimiter[c].at = "lock"
    /\ iMu.writer = 0
    /\ iMu.readers = {}
    /\ iMu' = [iMu EXCEPT !.writer = c]
    /\ getLimiter' = [getLimiter EXCEPT ![c].at = "locked"]
    /\ UNCHANGED <<coreVars, deadlineFired, serverVars, ips, limitersMade, returnedLimiters>>

\* limiter = rate.NewLimiter(i.rate, i.burst); i.ips[ip] = limiter; i.mu.Unlock()
GetLimiterStore(c) ==
    /\ getLimiter[c].at = "locked"
    /\ limitersMade' = limitersMade + 1
    /\ ips' = [ips EXCEPT ![getLimiter[c].ip] = limitersMade + 1]
    /\ getLimiter' = [getLimiter EXCEPT ![c].limiter = limitersMade + 1, ![c].at = "return"]
    /\ iMu' = [iMu EXCEPT !.writer = 0]
    /\ UNCHANGED <<coreVars, deadlineFired, serverVars, returnedLimiters>>

\* return limiter
GetLimiterReturn(c) ==
    /\ getLimiter[c].at = "return"
    /\ returnedLimiters' =
          returnedLimiters \cup {[ip |-> getLimiter[c].ip, limiter |-> getLimiter[c].limiter]}
    /\ getLimiter' = [getLimiter EXCEPT ![c] = NoGetLimiter]
    /\ UNCHANGED <<coreVars, deadlineFired, serverVars, ips, iMu, limitersMade>>

\* ------------------------------------------------------------ main
\* The process is running.
Running == exitCode = -1

\* A request arrives and enters the tracking middleware: wg.Add(1).
RequestArrive ==
    /\ Running
    /\ listening
    /\ inFlight < MaxRequests
    /\ inFlight' = inFlight + 1
    /\ UNCHANGED <<coreVars, deadlineFired, limiterVars>>
    /\ UNCHANGED <<program, mainPc, listening, ctxCancelled, timeoutElapsed, waitChan,
                   waitedFor, dbClosed, exitCode>>

\* A request's handlers return: the deferred wg.Done().
RequestDone ==
    /\ Running
    /\ inFlight > 0
    /\ inFlight' = inFlight - 1
    /\ UNCHANGED <<coreVars, deadlineFired, limiterVars>>
    /\ UNCHANGED <<program, mainPc, listening, ctxCancelled, timeoutElapsed, waitChan,
                   waitedFor, dbClosed, exitCode>>

\* <-quit returns (SIGINT or SIGTERM); cancel(); shutdownCtx is made, whose
\* timeout starts to run; main is about to call srv.Shutdown.
Signal ==
    /\ mainPc = "serving"
    /\ ctxCancelled' = TRUE
    /\ mainPc' = "shutdown"
    /\ UNCHANGED <<coreVars, deadlineFired, limiterVars>>
    /\ UNCHANGED <<program, inFlight, listening, timeoutElapsed, waitChan, waitedFor,
                   dbClosed, exitCode>>

\* The timeout of shutdownCtx elapses.
Timeout ==
    /\ Running
    /\ mainPc \in {"shutdown", "polling", "wait"}
    /\ ~timeoutElapsed
    /\ timeoutElapsed' = TRUE
    /\ UNCHANGED <<coreVars, deadlineFired, limiterVars>>
    /\ UNCHANGED <<program, mainPc, inFlight, listening, ctxCancelled, waitChan, waitedFor,
                   dbClosed, exitCode>>

\* srv.Shutdown(...) is entered: the listeners are closed, no new request is
\* accepted; Shutdown goes on to poll the connections.
ShutdownEnter ==
    /\ mainPc = "shutdown"
    /\ listening' = FALSE
    /\ mainPc' = "polling"
    /\ UNCHANGED <<coreVars, deadlineFired, limiterVars>>
    /\ UNCHANGED <<program, inFlight, ctxCancelled, timeoutElapsed, waitChan, waitedFor,
                   dbClosed, exitCode>>

\* Whether the context handed to srv.Shutdown is done: cmd/main.go hands it
\* ctx, which main has just cancelled; cmd/api/main.go hands it shutdownCtx.
ShutdownCtxDone == IF program = CmdMain THEN ctxCancelled ELSE timeoutElapsed

\* srv.Shutdown returns: nil once no connection is serving a request, or the
\* context's error once its context is done.  cmd/main.go: if err != nil
\* { log.Fatal(...) }, which exits the process with status 1 at once;
\* cmd/api/main.go logs the error.  Otherwise waitChan is made and the goroutine
\* around wg.Wait() is spawned, and main reaches its select.
ShutdownReturn ==
    /\ mainPc = "polling"
    /\ \E err \in BOOLEAN :
          /\ ~err => inFlight = 0
          /\ err => ShutdownCtxDone
          /\ IF err /\ program = CmdMain
               THEN /\ exitCode' = 1
                    /\ mainPc' = "exited"
                    /\ UNCHANGED waitChan
               ELSE /\ waitChan' = "open"
                    /\ mainPc' = "wait"
                    /\ UNCHANGED exitCode
    /\ UNCHANGED <<coreVars, deadlineFired, limiterVars>>
    /\ UNCHANGED <<program, inFlight, listening, ctxCancelled, timeoutElapsed, waitedFor,
                   dbClosed>>

\* go func() { wg.Wait(); close(waitChan) }()
MainWaiterClose ==
    /\ Running
    /\ waitChan = "open"
    /\ inFlight = 0
    /\ waitChan' = "closed"
    /\ UNCHANGED <<coreVars, deadlineFired, limiterVars>>
    /\ UNCHANGED <<program, mainPc, inFlight, listening, ctxCancelled, timeoutElapsed,
                   waitedFor, dbClosed, exitCode>>

\* select { case <-waitChan: ... case <-shutdownCtx.Done(): ... }
WaitReturn ==
    /\ mainPc = "wait"
    /\ \E branch \in {"requests", "timeout"} :
          /\ branch = "requests" => waitChan = "closed"
          /\ branch = "timeout" => timeoutElapsed
          /\ waitedFor' = branch
    /\ mainPc' = "close_db"
    /\ UNCHANGED <<coreVars, deadlineFired, limiterVars>>
    /\ UNCHANGED <<program, inFlight, listening, ctxCancelled, timeoutElapsed, waitChan,
                   dbClosed, exitCode>>

\* dbPool.Close() / sqlDB.Close()
CloseDatabase ==
    /\ mainPc = "close_db"
    /\ dbClosed' = TRUE
    /\ mainPc' = "exit"
    /\ UNCHANGED <<coreVars, deadlineFired, limiterVars>>
    /\ UNCHANGED <<program, inFlight, listening, ctxCancelled, timeoutElapsed, waitChan,
                   waitedFor, exitCode>>

\* main returns: the process exits with status 0.
MainReturn ==
    /\ mainPc = "exit"
    /\ exitCode' = 0
    /\ mainPc' = "exited"
    /\ UNCHANGED <<coreVars, deadlineFired, limiterVars>>
    /\ UNCHANGED <<program, inFlight, listening, ctxCancelled, timeoutElapsed, waitChan,
                   waitedFor, dbClosed>>

\* ------------------------------------------------------------ specification
\* Indices of d.workerPool.  A second effective Start doubles the pool, and the
\* Stop that follows it never gets past the first worker (PoolBounded below).
PoolIndices == 1..(2 * MaxWorkers)

CallerStep(c) ==
    \/ StartLock(c)
    \/ StartBody(c)
    \/ StopLock(c)
    \/ StopCheck(c)
    \/ StopSend(c)
    \/ StopSpawnWait(c)
    \/ StopReturn(c)
    \/ DispatchCheck(c)
    \/ DispatchSend(c)

WorkerStep(w) ==
    \/ WorkerReceive(w)
    \/ WorkerFinish(w)
    \/ WorkerExit(w)

Next ==
    \/ \E c \in Callers : CallerStep(c)
    \/ \E w \in PoolIndices : WorkerStep(w)
    \/ WaiterClose
    \/ CtxExpire

Spec == Init /\ [][Next]_vars

\* The state NewDispatcher(1), Start() and QueueCap - 1 DispatchJob calls lead to
\* when every call has returned before the worker goroutine is first scheduled:
\* the channel is one slot short of full.  ExtraJobs more calls than the channel
\* has room for are still to come.
InitFill ==
    /\ maxWorkers = 1
    /\ jobLimit = QueueCap + ExtraJobs
    /\ workerPool = <<NewWorker(0)>>
    /\ jobQueue = [j \in 1..(QueueCap - 1) |-> j]
    /\ wg = 1
    /\ isRunning = TRUE
    /\ mu = 0
    /\ pc = [c \in Callers |-> "idle"]
    /\ arg = [c \in Callers |-> 0]
    /\ stopIdx = 0
    /\ ctxDone = FALSE
    /\ ctxAtCall = FALSE
    /\ stops = 0
    /\ done = "none"
    /\ stopBranch = "none"
    /\ nextJob = QueueCap
    /\ calls = [j \in 1..(QueueCap - 1) |->
                   [running |-> TRUE, stops |-> 0, fate |-> "accepted"]]
    /\ execCount = [j \in 1..(QueueCap - 1) |-> 0]
    /\ execBy = [j \in 1..(QueueCap - 1) |-> {}]
    /\ recvBy = [j \in 1..(QueueCap - 1) |-> {}]
    /\ admitted = [j \in 1..(QueueCap - 1) |-> j]
    /\ JobsFailing({QueueCap})
    /\ NoRunJob
    /\ NewScheduledJob
    /\ NoRequest
    /\ NewIPRateLimiter
    /\ ServerProcess(ApiMain)

\* No Stop call is made: Start calls, DispatchJob calls and the workers.
NextFill ==
    \/ \E c \in Callers : StartLock(c)
    \/ \E c \in Callers : StartBody(c)
    \/ \E c \in Callers : DispatchCheck(c)
    \/ \E c \in Callers : DispatchSend(c)
    \/ \E w \in PoolIndices : WorkerReceive(w)
    \/ \E w \in PoolIndices : WorkerFinish(w)

\* The Go scheduler runs every runnable goroutine: a call that is under way goes
\* on, and a worker goroutine goes on (job.Execute returns).
FairnessFill ==
    /\ \A c \in Callers : WF_vars(StartBody(c) \/ DispatchSend(c))
    /\ \A w \in PoolIndices : WF_vars(WorkerReceive(w) \/ WorkerFinish(w))

SpecFill == InitFill /\ [][NextFill]_vars /\ FairnessFill

\* A Dispatcher from its construction on that is started and never stopped.
RunSpec == Init /\ [][NextFill]_vars /\ FairnessFill

\* The Dispatcher with RunJob calls next to the Start, Stop and DispatchJob
\* calls; one job less goes through DispatchJob.
InitRunJob ==
    /\ \E n \in 1..MaxWorkers : NewDispatcher(n, MaxJobs - 1)
    /\ JobsFailing({1})
    /\ NoRunJob
    /\ NewScheduledJob
    /\ NoRequest
    /\ NewIPRateLimiter
    /\ ServerProcess(ApiMain)

NextRunJob ==
    \/ Next
    \/ \E c \in Callers : RunJobCall(c)
    \/ \E c \in Callers : RunJobReturn(c)

RunJobSpec == InitRunJob /\ [][NextRunJob]_vars

\* A Dispatcher that is started and never stopped, with every choice of the
\* jobs whose Execute returns an error.
InitErr ==
    /\ \E n \in 1..MaxWorkers : NewDispatcher(n, MaxJobs)
    /\ \E failing \in SUBSET (1..MaxJobs) : JobsFailing(failing)
    /\ NoRunJob
    /\ NewScheduledJob
    /\ NoRequest
    /\ NewIPRateLimiter
    /\ ServerProcess(ApiMain)

ErrSpec == InitErr /\ [][NextFill]_vars /\ FairnessFill

\* A Dispatcher that NewDispatcher(1) and Start() have set running, and whose
\* queue holds the jobs of fill DispatchJob calls that returned before the
\* worker goroutine was first scheduled.
RunningDispatcher(fill) ==
    /\ maxWorkers = 1
    /\ jobLimit = fill
    /\ workerPool = <<NewWorker(0)>>
    /\ jobQueue = [j \in 1..fill |-> j]
    /\ admitted = [j \in 1..fill |-> j]
    /\ wg = 1
    /\ isRunning = TRUE
    /\ mu = 0
    /\ pc = [c \in Callers |-> "idle"]
    /\ arg = [c \in Callers |-> 0]
    /\ stopIdx = 0
    /\ ctxDone = FALSE
    /\ ctxAtCall = FALSE
    /\ stops = 0
    /\ done = "none"
    /\ stopBranch = "none"
    /\ nextJob = fill + 1
    /\ calls = [j \in 1..fill |-> [running |-> TRUE, stops |-> 0, fate |-> "accepted"]]
    /\ execCount = [j \in 1..fill |-> 0]
    /\ execBy = [j \in 1..fill |-> {}]
    /\ recvBy = [j \in 1..fill |-> {}]

\* A ScheduledJob bound to a running Dispatcher with an empty queue.
InitSched ==
    /\ RunningDispatcher(0)
    /\ JobsFailing({})
    /\ NoRunJob
    /\ NewScheduledJob
    /\ NoRequest
    /\ NewIPRateLimiter
    /\ ServerProcess(ApiMain)

\* The ScheduledJob's Start and Stop calls, its ticker and its goroutines, and
\* the Dispatcher's worker; the Dispatcher stays running.
NextSched ==
    \/ \E c \in Callers : SStartLock(c)
    \/ \E c \in Callers : SStartBody(c)
    \/ \E c \in Callers : SStopLock(c)
    \/ \E c \in Callers : SStopBody(c)
    \/ Tick
    \/ \E l \in LoopIndices : LoopStep(l)
    \/ \E w \in PoolIndices : WorkerReceive(w)
    \/ \E w \in PoolIndices : WorkerFinish(w)

SchedSpec == InitSched /\ [][NextSched]_vars

\* A ScheduledJob bound to a running Dispatcher whose queue is full.
InitSchedFull ==
    /\ RunningDispatcher(QueueCap)
    /\ JobsFailing({})
    /\ NoRunJob
    /\ NewScheduledJob
    /\ NoRequest
    /\ NewIPRateLimiter
    /\ ServerProcess(ApiMain)

\* Under load the worker is slow against the producers: it dequeues a job only
\* when the queue is full.
SlowWorkerReceive(w) ==
    /\ Len(jobQueue) = QueueCap
    /\ WorkerReceive(w)

\* The same with the Dispatcher's Stop calls, under load.
NextSchedFull ==
    \/ \E c \in Callers : SStartLock(c)
    \/ \E c \in Callers : SStartBody(c)
    \/ \E c \in Callers : SStopLock(c)
    \/ \E c \in Callers : SStopBody(c)
    \/ Tick
    \/ \E l \in LoopIndices : LoopStep(l)
    \/ \E w \in PoolIndices : SlowWorkerReceive(w)
    \/ \E w \in PoolIndices : WorkerFinish(w)
    \/ \E w \in PoolIndices : WorkerExit(w)
    \/ \E c \in Callers : StopLock(c)
    \/ \E c \in Callers : StopCheck(c)
    \/ \E c \in Callers : StopSend(c)
    \/ \E c \in Callers : StopSpawnWait(c)
    \/ \E c \in Callers : StopReturn(c)
    \/ WaiterClose
    \/ CtxExpire

SchedFullSpec == InitSchedFull /\ [][NextSchedFull]_vars

\* A request to a route guarded by RoleRequired(roles...), for every header,
\* every choice of at least one role and every chain; the job subsystem is idle.
InitAuth ==
    /\ NewDispatcher(1, 0)
    /\ JobsFailing({})
    /\ NoRunJob
    /\ NewScheduledJob
    /\ NewIPRateLimiter
    /\ ServerProcess(ApiMain)
    /\ \E h \in Headers : \E rs \in (SUBSET Roles) \ {{}} :
          \E inAuthGroup \in BOOLEAN : \E n \in 1..MaxHandlers :
              Request(h, rs, Chain(inAuthGroup, n))

NextAuth ==
    \/ NextEnter
    \/ NextCall
    \/ NextAdvance
    \/ NextReturn
    \/ AuthRequiredRun
    \/ AuthRequiredReturn
    \/ RoleRequiredCallAuth
    \/ RoleRequiredCheck
    \/ RoleRequiredReturn
    \/ HandlerRun

AuthSpec == InitAuth /\ [][NextAuth]_vars

\* The Dispatcher under load with Stop calls: from a queue one slot short of
\* full, with more DispatchJob calls to come than the queue has room for.
\* The workers are slow against the producers: a job is dequeued only from a
\* full queue.
NextFillStop ==
    \/ \E c \in Callers : CallerStep(c)
    \/ \E w \in PoolIndices : SlowWorkerReceive(w)
    \/ \E w \in PoolIndices : WorkerFinish(w)
    \/ \E w \in PoolIndices : WorkerExit(w)
    \/ WaiterClose
    \/ CtxExpire

FillStopSpec == InitFill /\ [][NextFillStop]_vars

\* The Dispatcher with the deadlines of the jobs' execution contexts.
NextDeadline ==
    \/ Next
    \/ \E w \in PoolIndices : DeadlineFire(w)

DeadlineSpec == Init /\ [][NextDeadline]_vars

\* The rate limiter of RateLimiter(requests, duration), with the goroutines of
\* concurrent requests calling GetLimiter; the job subsystem is idle.
InitLimiter ==
    /\ NewDispatcher(1, 0)
    /\ JobsFailing({})
    /\ NoRunJob
    /\ NewScheduledJob
    /\ NoRequest
    /\ NewIPRateLimiter
    /\ ServerProcess(ApiMain)

NextLimiter ==
    \/ \E c \in Callers : \E ip \in IPs : GetLimiterRLock(c, ip)
    \/ \E c \in Callers : GetLimiterRead(c)
    \/ \E c \in Callers : GetLimiterLock(c)
    \/ \E c \in Callers : GetLimiterStore(c)
    \/ \E c \in Callers : GetLimiterReturn(c)

LimiterSpec == InitLimiter /\ [][NextLimiter]_vars

\* The server process of either main function, from the moment it serves
\* requests; the job subsystem is idle.
InitServer ==
    /\ NewDispatcher(1, 0)
    /\ JobsFailing({})
    /\ NoRunJob
    /\ NewScheduledJob
    /\ NoRequest
    /\ NewIPRateLimiter
    /\ \E main \in {CmdMain, ApiMain} : ServerProcess(main)

NextServer ==
    \/ RequestArrive
    \/ RequestDone
    \/ Signal
    \/ Timeout
    \/ ShutdownEnter
    \/ ShutdownReturn
    \/ MainWaiterClose
    \/ WaitReturn
    \/ CloseDatabase
    \/ MainReturn

ServerSpec == InitServer /\ [][NextServer]_vars

\* The pool never outgrows PoolIndices.
PoolBounded == Len(workerPool) <= 2 * MaxWorkers

\* ------------------------------------------------------------ fairness
\* The Go scheduler runs every runnable goroutine: a call that is under way goes
\* on, a worker goroutine goes on (job.Execute returns), the waiter goes on.
\* Whether and when a caller makes a new call is up to the caller.
CallProgress(c) ==
    \/ StartBody(c)
    \/ StopCheck(c)
    \/ StopSend(c)
    \/ StopSpawnWait(c)
    \/ StopReturn(c)
    \/ DispatchSend(c)

Fairness ==
    /\ \A c \in Callers : WF_vars(CallProgress(c))
    /\ \A w \in PoolIndices : WF_vars(WorkerStep(w))
    /\ WF_vars(WaiterClose)

FairSpec == Init /\ [][Next]_vars /\ Fairness

\* The same, except that a job's Execute need not return: a worker may stay in
\* job.Execute for ever.
FairnessExecuteMayHang ==
    /\ \A c \in Callers : WF_vars(CallProgress(c))
    /\ \A w \in PoolIndices : WF_vars(WorkerReceive(w) \/ WorkerExit(w))
    /\ WF_vars(WaiterClose)

HangSpec == Init /\ [][Next]_vars /\ FairnessExecuteMayHang

\* ------------------------------------------------------------ helpers of the properties
JobIds == 1..(nextJob - 1)

Executing(w) == w \in 1..Len(workerPool) /\ workerPool[w].st = "exec"

InQueue(j) == \E i \in 1..Len(jobQueue) : jobQueue[i] = j

InFlight(j) == \E c \in Callers : arg[c] = j

StopInProgress == \E c \in Callers : pc[c] \in {"stop_send", "stop_wait"}

\* ------------------------------------------------------------ C1
\* A job accepted by DispatchJob is counted from any moment at which the
\* Dispatcher is running, no Stop is under way and no Stop has begun since the
\* job's DispatchJob call.
Pending(j) ==
    /\ j \in JobIds
    /\ calls[j].fate = "accepted"
    /\ isRunning
    /\ ~StopInProgress
    /\ stops = calls[j].stops

\* C1: on a started Dispatcher that is not stopped, every job handed to
\* DispatchJob is eventually executed by a worker, and no job is ever executed
\* more than once.
C1_EveryJobExecutedOnce ==
    /\ \A j \in 1..MaxJobs :
          Pending(j) ~> (j \in JobIds /\ (execCount[j] = 1 \/ stops > calls[j].stops))
    /\ [](\A j \in JobIds : execCount[j] <= 1)

\* All MaxJobs jobs were dispatched to a Dispatcher that was never stopped, and
\* each has been executed once.
C1_Witness ==
    /\ stops = 0
    /\ nextJob = MaxJobs + 1
    /\ \A j \in JobIds : calls[j].fate = "accepted" /\ execCount[j] = 1

\* ------------------------------------------------------------ C2
\* C2: in every reachable state, whatever Start, Stop, DispatchJob and worker
\* steps came before, each job has been received from the queue by at most one
\* worker, Execute has been invoked on it by exactly the workers that received
\* it, at most once in all, and a worker that is executing is executing a job
\* it received itself.
C2_ExecutedOnceByReceiver ==
    /\ \A j \in JobIds :
          /\ execCount[j] <= 1
          /\ execBy[j] = recvBy[j]
          /\ Cardinality(recvBy[j]) <= 1
          /\ execCount[j] = Cardinality(execBy[j])
    /\ \A w \in 1..Len(workerPool) :
          Executing(w) => /\ workerPool[w].job \in JobIds
                          /\ recvBy[workerPool[w].job] = {w}

\* After Start, Stop, Start: a worker of the second batch is executing one job
\* while another job has already been executed.
C2_Witness ==
    /\ Len(workerPool) > maxWorkers
    /\ \E w \in 1..Len(workerPool) : w > maxWorkers /\ Executing(w)
    /\ \E j \in JobIds : execCount[j] = 1 /\ ~InFlight(j) /\ \A w \in 1..Len(workerPool) : workerPool[w].job # j

\* ------------------------------------------------------------ C3
\* C3: a job whose DispatchJob call found the Dispatcher not running is
\* dropped: it is not accepted, it is not on its way to the queue nor in it, no
\* worker has received it and its Execute has not been invoked, in every later
\* state.
C3_DroppedNeverRuns ==
    \A j \in JobIds :
        ~calls[j].running =>
            /\ calls[j].fate = "dropped"
            /\ ~InFlight(j)
            /\ ~InQueue(j)
            /\ recvBy[j] = {}
            /\ execCount[j] = 0

\* A job was dropped before the first Start, another after a Stop, and the
\* Dispatcher has been started again since.
C3_Witness ==
    /\ isRunning
    /\ stops >= 1
    /\ \E j \in JobIds : ~calls[j].running /\ calls[j].stops = 0
    /\ \E j \in JobIds : ~calls[j].running /\ calls[j].stops >= 1

\* ------------------------------------------------------------ C4
\* C4: a job is placed on the queue only at a moment when the Dispatcher is
\* running (isRunning holds in the state in which the send happens).
C4_EnqueueOnlyWhileRunning ==
    [][Len(jobQueue') > Len(jobQueue) => isRunning]_vars

\* ------------------------------------------------------------ C5
\* C5: a Stop(ctx) whose ctx was already done when it was called never waits
\* for a job's Execute to return: it is never at the stop signal of a worker
\* that is in the middle of Execute (the send cannot complete before Execute
\* returns).
C5_ExpiredStopNeverWaitsForExecute ==
    \A c \in Callers :
        (pc[c] = "stop_send" /\ ctxAtCall /\ stopIdx <= Len(workerPool))
            => ~Executing(stopIdx)

\* ------------------------------------------------------------ C6
\* C6: shutdown is best-effort and non-blocking: when Stop is under way with its
\* ctx done while a worker is in the middle of Execute, Stop returns through
\* its ctx branch and sets the Dispatcher to not-running with that worker still
\* executing, unless the worker's Execute returns first.
C6_StopAbandonsBusyWorker ==
    \A c \in Callers : \A w \in PoolIndices :
        (pc[c] \in {"stop_send", "stop_wait"} /\ ctxDone /\ Executing(w))
            ~> \/ ~Executing(w)
               \/ (pc[c] = "idle" /\ stopBranch = "ctx" /\ ~isRunning /\ Executing(w))

\* What the code does instead: Stop returns, through either branch, only when no
\* worker of the pool is executing (each has taken its stop signal at its select).
C6_StopReturnsOnlyWhenNoneExecuting ==
    [][\A c \in Callers :
          (pc[c] = "stop_wait" /\ pc'[c] = "idle")
              => \A w \in 1..Len(workerPool) : ~Executing(w)]_vars

\* ------------------------------------------------------------ C7
\* C7: Start on a running Dispatcher returns leaving the worker pool, the
\* workers' goroutines, the WaitGroup count, the queue and the flag as they were;
\* Stop on a Dispatcher that is not running returns at once, leaving the same
\* and signalling no worker.
C7_StartStopIdempotent ==
    [][\A c \in Callers :
          /\ (pc[c] = "start" /\ isRunning /\ pc'[c] # "start")
                => /\ pc'[c] = "idle"
                   /\ UNCHANGED <<workerPool, wg, jobQueue, isRunning>>
          /\ (pc[c] = "stop" /\ ~isRunning /\ pc'[c] # "stop")
                => /\ pc'[c] = "idle"
                   /\ UNCHANGED <<workerPool, wg, jobQueue, isRunning, stopIdx, done, stops>>]_vars

\* A Start call holds the mutex on a Dispatcher that is already running, with
\* its workers busy and a job queued.
C7_Witness ==
    /\ isRunning
    /\ \E c \in Callers : pc[c] = "start"
    /\ \E w \in 1..Len(workerPool) : Executing(w)
    /\ jobQueue # << >>

\* ------------------------------------------------------------ C8
\* C8: once started, the worker pool holds exactly maxWorkers workers, with
\* ids 0..maxWorkers-1 each appearing once.
C8_PoolHasWorkerCountWorkers ==
    workerPool # << >> =>
        /\ Len(workerPool) = maxWorkers
        /\ \A i \in 0..(maxWorkers - 1) :
              Cardinality({w \in 1..Len(workerPool) : workerPool[w].id = i}) = 1

\* ------------------------------------------------------------ C9
\* What a Stop call that is under way can do next, or waits for when no job
\* was ever submitted: its own steps, the waiter, and workers taking their exit.
StopCanProceed(c) ==
    \/ StopSend(c)
    \/ StopSpawnWait(c)
    \/ StopReturn(c)
    \/ WaiterClose
    \/ \E w \in PoolIndices : WorkerExit(w)

\* C9: with no job ever submitted, every Stop call of a sequence of Start and
\* Stop calls returns: a Stop that is under way is never stuck, something it
\* waits for can always happen.
C9_StopAlwaysCompletes ==
    \A c \in Callers :
        (nextJob = 1 /\ pc[c] \in {"stop_send", "stop_wait"}) => ENABLED StopCanProceed(c)

\* ------------------------------------------------------------ C10
\* C10: the queue never holds more than QueueCap jobs; a DispatchJob call that
\* has passed the isRunning check keeps its job and stays in its send until the
\* step that appends the job to a queue with a free slot, which is the step it
\* returns by; and on a Dispatcher that stays running the call does return.
C10_BoundedQueueBlocksProducer ==
    /\ [](Len(jobQueue) <= QueueCap)
    /\ [][\A c \in Callers :
             pc[c] = "dispatch_send" =>
                 \/ (pc'[c] = "dispatch_send" /\ arg'[c] = arg[c])
                 \/ /\ Len(jobQueue) < QueueCap
                    /\ jobQueue' = Append(jobQueue, arg[c])
                    /\ pc'[c] = "idle"]_vars
    /\ \A c \in Callers : (pc[c] = "dispatch_send") ~> (pc[c] = "idle")

\* A DispatchJob call is blocked in its send on a full queue.
C10_Witness ==
    /\ Len(jobQueue) = QueueCap
    /\ \E c \in Callers : pc[c] = "dispatch_send"

\* ------------------------------------------------------------ C11
\* C11: jobs are handed to workers in the order of their admission to the
\* queue: whenever a worker dequeues a job, that job is the one admitted
\* earliest among the jobs admitted and not yet dequeued, so a job enqueued
\* before another is dequeued before it, whichever callers enqueued them and
\* whichever workers dequeue them.
C11_FifoDelivery ==
    [][\A j \in JobIds :
          recvBy'[j] # recvBy[j] => (admitted # << >> /\ j = Head(admitted))]_vars

\* Two jobs were enqueued in the reverse order of their DispatchJob calls (the
\* job of the second call first), and a worker has dequeued the job enqueued
\* first while the other is still in the queue.
C11_Witness ==
    /\ jobQueue = <<1>>
    /\ \E w \in 1..Len(workerPool) : Executing(w) /\ workerPool[w].job = 2

\* ------------------------------------------------------------ C12
\* C12: a RunJob call has the job's Execute invoked once, by the calling
\* goroutine itself, while the call is under way; the call returns only by the
\* step in which Execute returns, and the value it returns is the value Execute
\* returned, nil or the error; this holds in every state of the Dispatcher,
\* running or not.
C12_RunJobReturnsExecuteResult ==
    /\ [](\A c \in Callers : runExecs[c] = (IF pc[c] = "run_exec" THEN 1 ELSE 0))
    /\ [][\A c \in Callers :
             (pc[c] = "run_exec" /\ pc'[c] # "run_exec")
                 => /\ pc'[c] = "idle"
                    /\ lastRun'.execs = 1
                    /\ lastRun'.executed \in ExecuteResults
                    /\ lastRun'.returned = lastRun'.executed]_vars

\* A RunJob call has returned the error of its job's Execute, and another is
\* under way, on a Dispatcher that has been stopped with a job left in its queue.
C12_Witness ==
    /\ lastRun.returned = "error"
    /\ \E c \in Callers : pc[c] = "run_exec"
    /\ ~isRunning
    /\ stops >= 1
    /\ jobQueue # << >>

\* ------------------------------------------------------------ C13
\* The job's Execute has returned and the worker has logged the result.
Logged(j, level) == [job |-> j, level |-> level] \in jobLog

\* C13: a job whose Execute returns an error is only logged: in the step in
\* which its Execute returns, the worker goes back to its select, and the queue,
\* the pool size, the WaitGroup count, the running flag and the execution
\* counts stay as they are; afterwards the job is not in the queue, no worker
\* holds it and it has been executed once; and every job accepted by the running
\* Dispatcher, failing or not, is still executed once and logged.
C13_FailedJobOnlyLogged ==
    /\ [][\A w \in PoolIndices :
             (Executing(w) /\ workerPool[w].job \in failJobs /\ ~Executing(w)')
                 => /\ workerPool'[w].st = "select"
                    /\ [job |-> workerPool[w].job, level |-> "error"] \in jobLog'
                    /\ UNCHANGED <<jobQueue, wg, isRunning, mu, execCount, maxWorkers>>
                    /\ Len(workerPool') = Len(workerPool)]_vars
    /\ [](\A j \in JobIds :
             /\ execCount[j] <= 1
             /\ Logged(j, "error")
                   => /\ j \in failJobs
                      /\ ~InQueue(j)
                      /\ execCount[j] = 1
                      /\ \A w \in 1..Len(workerPool) : workerPool[w].job # j)
    /\ \A j \in 1..MaxJobs :
          Pending(j) ~> (j \in JobIds /\ execCount[j] = 1
                           /\ (Logged(j, "error") \/ Logged(j, "info")))

\* With one worker: the first job failed, and the same worker has gone on to
\* execute the next job, which succeeded.
C13_Witness ==
    /\ maxWorkers = 1
    /\ \E j \in JobIds : \E k \in JobIds :
          /\ Logged(j, "error") /\ Logged(k, "info")
          /\ recvBy[j] = recvBy[k]
          /\ execCount[j] = 1 /\ execCount[k] = 1

\* ------------------------------------------------------------ C14
\* What Start and Stop of a ScheduledJob can change: the ticker, the goroutines,
\* the jobs dispatched, the flag and the context.
SchedState == <<tickersMade, tickerActive, tickPending, loops, sDispatched, nextJob,
                jobQueue, sIsRunning, sCancelled>>

\* C14: a Start call that finds the ScheduledJob running returns having made no
\* ticker, spawned no goroutine and dispatched nothing, and a Stop call that
\* finds it stopped returns having changed nothing; when a Start call returns
\* the flag is true, when a Stop call returns it is false.
C14_SchedStartStopIdempotent ==
    [][\A c \in Callers :
          /\ (pc[c] = "sstart" /\ sIsRunning /\ pc'[c] # "sstart")
                => (pc'[c] = "idle" /\ UNCHANGED SchedState)
          /\ (pc[c] = "sstop" /\ ~sIsRunning /\ pc'[c] # "sstop")
                => (pc'[c] = "idle" /\ UNCHANGED SchedState)
          /\ (pc[c] = "sstart" /\ pc'[c] = "idle") => sIsRunning'
          /\ (pc[c] = "sstop" /\ pc'[c] = "idle") => ~sIsRunning']_vars

\* A Start call holds the mutex of a ScheduledJob that is running, with its
\* goroutine in the middle of a DispatchJob call and a tick waiting.
C14_Witness ==
    /\ sIsRunning
    /\ \E c \in Callers : pc[c] = "sstart"
    /\ \E l \in 1..Len(loops) : loops[l].st = "send"
    /\ tickPending

\* ------------------------------------------------------------ C15
\* The goroutines of the ScheduledJob that are inside a DispatchJob call, past
\* the isRunning check and before the end of the send.
Outstanding == {l \in 1..Len(loops) : loops[l].st = "send"}

\* C15: in every reachable state at most one DispatchJob call of the
\* ScheduledJob is outstanding.
C15_OneOutstandingDispatch == Cardinality(Outstanding) <= 1

\* ------------------------------------------------------------ C16
\* C16 as stated: the first DispatchJob call is made by Start itself, before it
\* returns: on a running Dispatcher with free queue space, no goroutine spawned
\* by a Start call (which has returned or is returning) has its first DispatchJob
\* call still to make.
C16_FirstDispatchBeforeStartReturns ==
    \A l \in 1..Len(loops) :
        (isRunning /\ Len(jobQueue) < QueueCap) => loops[l].st # "first"

\* C16 amended: a Start call that finds the ScheduledJob stopped makes the
\* ticker, spawns the goroutine and returns without a DispatchJob call; the
\* goroutine's first step is the DispatchJob call for a fresh job, made with the
\* ticker in place and without waiting for a tick.
C16_FirstDispatchByLoop ==
    [][/\ \A c \in Callers :
             (pc[c] = "sstart" /\ ~sIsRunning /\ pc'[c] = "idle")
                 => /\ tickersMade' = tickersMade + 1
                    /\ tickerActive'
                    /\ Len(loops') = Len(loops) + 1
                    /\ loops'[Len(loops')].st = "first"
                    /\ UNCHANGED <<sDispatched, nextJob, jobQueue>>
       /\ \A l \in 1..Len(loops) :
             (loops[l].st = "first" /\ loops'[l].st # "first")
                 => /\ tickersMade >= l
                    /\ Len(sDispatched') = Len(sDispatched) + 1
                    /\ sDispatched'[Len(sDispatched')].id = nextJob
                    /\ loops'[l].st \in {"send", "select"}
                    /\ UNCHANGED <<tickPending, ticksFired>>]_vars

\* Start has returned, no tick has been delivered, and the goroutine is inside
\* its first DispatchJob call.
C16_Witness ==
    /\ \A c \in Callers : pc[c] = "idle"
    /\ ticksFired = 0
    /\ Len(loops) = 1
    /\ loops[1].st = "send"
    /\ Len(sDispatched) = 1

\* ------------------------------------------------------------ C17
\* What a goroutine of the ScheduledJob can do next, or waits for on a full
\* queue: its own steps, and a worker making room.
LoopCanProceed(l) ==
    \/ LoopStep(l)
    \/ \E w \in PoolIndices : WorkerReceive(w)
    \/ \E w \in PoolIndices : WorkerFinish(w)

\* C17: once Stop has cancelled the ScheduledJob's context, every goroutine of
\* the ScheduledJob that has not exited goes on to exit, wherever it is: it is
\* never stuck, it can take a step or a worker can make the room it waits for.
C17_StoppedLoopExits ==
    \A l \in LoopIndices :
        (l <= Len(loops) /\ sCancelled /\ loops[l].st # "exited")
            => ENABLED LoopCanProceed(l)

\* ------------------------------------------------------------ C18
\* The jobs dispatched and the ticks delivered since the last Start that found
\* the ScheduledJob stopped.
RunJobsDispatched ==
    Cardinality({i \in 1..Len(sDispatched) : sDispatched[i].ticker = tickersMade})

RunTicks == ticksFired - ticksAtStart

\* No goroutine of the ScheduledJob has a step to take.
LoopsQuiet == \A l \in LoopIndices : ~ENABLED LoopStep(l)

\* C18: while the ScheduledJob is running on a running Dispatcher with free
\* queue space, once its goroutines have nothing left to do, k ticks have given
\* k + 1 dispatched jobs; the jobs dispatched have pairwise different ids, and
\* the ScheduledJob's name and action.
C18_OneJobPerTick ==
    /\ (sIsRunning /\ isRunning /\ Len(jobQueue) < QueueCap /\ LoopsQuiet)
          => RunJobsDispatched = RunTicks + 1
    /\ \A i \in 1..Len(sDispatched) : \A k \in 1..Len(sDispatched) :
          i # k => sDispatched[i].id # sDispatched[k].id
    /\ \A i \in 1..Len(sDispatched) :
          sDispatched[i].name = sName /\ sDispatched[i].execute = sExecuteFunc

\* What the code does: the same, for a ScheduledJob that has been started once.
C18_OneJobPerTickUntilStop ==
    /\ (tickersMade = 1 /\ sIsRunning /\ isRunning /\ Len(jobQueue) < QueueCap
           /\ LoopsQuiet)
          => RunJobsDispatched = RunTicks + 1
    /\ \A i \in 1..Len(sDispatched) : \A k \in 1..Len(sDispatched) :
          i # k => sDispatched[i].id # sDispatched[k].id
    /\ \A i \in 1..Len(sDispatched) :
          sDispatched[i].name = sName /\ sDispatched[i].execute = sExecuteFunc

\* ------------------------------------------------------------ C19
\* The caller is blocked inside Dispatcher.Stop: on the send to the quit channel
\* of a worker that is not at its select (it is executing a job, or has
\* exited), or in the select on ctx.Done() and done, waiting for the workers.
BlockedInStop(c) ==
    \/ /\ pc[c] = "stop_send"
       /\ stopIdx <= Len(workerPool)
       /\ workerPool[stopIdx].st # "select"
    \/ /\ pc[c] = "stop_wait"
       /\ done # "closed"
       /\ ~ctxDone

\* C19: no caller holds the Dispatcher's mutex or the ScheduledJob's mutex while
\* it is blocked; the holder of either mutex always has its next step to take.
C19_NoMutexHeldWhileBlocked ==
    \A c \in Callers :
        /\ mu = c => ~BlockedInStop(c)
        /\ sMu = c => ENABLED (SStartBody(c) \/ SStopBody(c))

\* What the code does for the ScheduledJob: the holder of its mutex is in the
\* body of Start or Stop, which has no blocking operation.
C19_SchedMutexHolderNeverBlocked ==
    \A c \in Callers :
        sMu = c => (pc[c] \in {"sstart", "sstop"} /\ ENABLED (SStartBody(c) \/ SStopBody(c)))

\* ------------------------------------------------------------ C20
\* The request carries a valid token whose role is one of roles.
Authorized ==
    /\ header.scheme = "Bearer"
    /\ ~ValidateToken(header.token).err
    /\ ValidateToken(header.token).role \in roles

\* C20: on a route guarded by RoleRequired(roles...), a handler behind the
\* middleware is run only for a request with a valid token whose role is one of
\* roles; for any other request none of them is ever run, and when the request
\* has been served it is aborted with status 401 or 403.
C20_RoleGuardsDownstreamHandlers ==
    ~Authorized =>
        /\ ran = << >>
        /\ stack = << >> => (aborted /\ status \in {401, 403})

\* What the code does: without a valid token no handler behind the middleware
\* is run and the request ends aborted with 401; with a valid token every
\* handler behind the middleware is run, once and in order, whatever the role.
C20_TokenGuardsDownstreamHandlers ==
    LET authenticated == header.scheme = "Bearer" /\ ~ValidateToken(header.token).err
        behind == {i \in 1..Len(handlers) : handlers[i].name = "handler"}
    IN  /\ ~authenticated => ran = << >>
        /\ (~authenticated /\ stack = << >> /\ handlers # << >>)
              => (aborted /\ status = 401)
        /\ (authenticated /\ stack = << >> /\ handlers # << >>)
              => ran = [i \in 1..Cardinality(behind) |-> i]

\* ------------------------------------------------------------ C22
\* The caller makes its RunJob call, or returns from it, in this step.
RunJobStep(c) ==
    \/ (pc[c] = "idle" /\ pc'[c] = "run_exec")
    \/ (pc[c] = "run_exec" /\ pc'[c] # "run_exec")

\* C22: RunJob bypasses the queue and the worker pool: the call and the return
\* of a RunJob call leave the queue, the worker pool with its goroutines, the
\* WaitGroup count, the running flag and the mutex as they were, and dequeue or
\* hand to a worker nothing; Execute runs in the caller, and every job that is
\* in the queue or held by a worker is one that was accepted by DispatchJob.
C22_RunJobBypassesQueue ==
    /\ [][\A c \in Callers :
             RunJobStep(c) =>
                 UNCHANGED <<jobQueue, workerPool, wg, isRunning, mu, admitted, recvBy, execBy,
                             execCount, calls, nextJob>>]_vars
    /\ [](\A j \in 1..MaxJobs :
             (InQueue(j) \/ \E w \in 1..Len(workerPool) : workerPool[w].job = j)
                 => (j \in JobIds /\ calls[j].fate = "accepted"))
    /\ [](\A w \in 1..Len(workerPool) : workerPool[w].job \in 0..MaxJobs)

\* A RunJob call has returned and another is under way while the running
\* Dispatcher has a job in its queue and all its workers at their select.
C22_Witness ==
    /\ lastRun.execs = 1
    /\ \E c \in Callers : pc[c] = "run_exec"
    /\ isRunning
    /\ jobQueue # << >>
    /\ wg = maxWorkers
    /\ \A w \in 1..Len(workerPool) : workerPool[w].st = "select"

\* ------------------------------------------------------------ C23
\* The worker's goroutine has taken its stop signal (case <-w.quit).
TookStop(w) == w \in 1..Len(workerPool) /\ workerPool[w].st \in {"quit", "exited"}

\* C23: the step in which a worker takes its stop signal finds it at its select,
\* holding no job, and leaves the queue as it is; from then on the worker stays
\* stopped, holds no job, and is added to the receivers and executors of no job,
\* whatever is in the queue.
C23_StoppedWorkerTakesNoJob ==
    [][\A w \in PoolIndices :
          /\ (w \in 1..Len(workerPool) /\ ~TookStop(w) /\ TookStop(w)')
                => /\ workerPool[w].st = "select"
                   /\ workerPool'[w].job = 0
                   /\ UNCHANGED <<jobQueue, recvBy, execBy, execCount>>
          /\ TookStop(w)
                => /\ TookStop(w)'
                   /\ workerPool'[w].job = 0
                   /\ \A j \in JobIds :
                         /\ (w \in recvBy'[j]) => (w \in recvBy[j])
                         /\ (w \in execBy'[j]) => (w \in execBy[j])]_vars

\* A worker has taken its stop signal and exited while a job is in the queue,
\* and Stop has returned.
C23_Witness ==
    /\ jobQueue # << >>
    /\ \E w \in 1..Len(workerPool) : workerPool[w].st = "exited"
    /\ stops >= 1
    /\ \A c \in Callers : pc[c] = "idle"

\* ------------------------------------------------------------ C24
\* The worker goroutines that have been started and have not returned.
LiveLoops == {w \in 1..Len(workerPool) : workerPool[w].st # "exited"}

\* C24: in every reachable state, across repeated Start and Stop calls, the
\* WaitGroup counter is the number of worker goroutines that have been started
\* and have not yet returned, and it is never negative; a step changes it only
\* by adding one per worker spawned or by taking one off for the worker that
\* returns.
C24_WaitGroupCountsLiveLoops ==
    /\ [](wg = Cardinality(LiveLoops) /\ wg >= 0)
    /\ [][wg' # wg =>
             \/ /\ wg' = wg + maxWorkers
                /\ Len(workerPool') = Len(workerPool) + maxWorkers
             \/ /\ wg' = wg - 1
                /\ \E w \in 1..Len(workerPool) :
                      workerPool[w].st = "quit" /\ workerPool'[w].st = "exited"]_vars

\* After Start, Stop, Start: the workers of the first Start have returned, and
\* of those of the second Start one is executing a job.
C24_Witness ==
    /\ Len(workerPool) = 2 * maxWorkers
    /\ \A w \in 1..maxWorkers : workerPool[w].st = "exited"
    /\ \E w \in 1..Len(workerPool) : Executing(w)
    /\ wg = maxWorkers

\* ------------------------------------------------------------ C29
\* The worker goroutines that have not taken their stop signal, and those in
\* the middle of a job's Execute.
ActiveLoops == {w \in 1..Len(workerPool) : workerPool[w].st \in {"select", "exec"}}

ExecutingWorkers == {w \in 1..Len(workerPool) : Executing(w)}

\* C29 as stated: in every reachable state, across any sequence of Start, Stop
\* (returning on either branch) and DispatchJob calls, the number of live worker
\* goroutines and the number of queued jobs being executed at the same time are
\* each at most maxWorkers.
C29_AtMostWorkerCountLive ==
    /\ Cardinality(LiveLoops) <= maxWorkers
    /\ Cardinality(ExecutingWorkers) <= maxWorkers

\* C29 amended: in every reachable state the number of worker goroutines that
\* have not taken their stop signal and the number of queued jobs being executed
\* at the same time are each at most maxWorkers; a live goroutine beyond that
\* number has taken its stop signal and is on its way to return.
C29_AtMostWorkerCountActive ==
    /\ Cardinality(ActiveLoops) <= maxWorkers
    /\ Cardinality(ExecutingWorkers) <= maxWorkers
    /\ \A w \in LiveLoops \ ActiveLoops : workerPool[w].st = "quit" /\ workerPool[w].job = 0

\* Stop has returned on its ctx branch before a worker that took its stop
\* signal has returned, Start has spawned maxWorkers workers more, and every
\* one of these is executing a job.
C29_Witness ==
    /\ stopBranch = "ctx"
    /\ Cardinality(LiveLoops) > maxWorkers
    /\ Cardinality(ExecutingWorkers) = maxWorkers

\* ------------------------------------------------------------ C25
\* The worker is inside the Execute of a job whose deadline has fired.
PastDeadline(w) == Executing(w) /\ workerPool[w].job \in deadlineFired

\* The worker's goroutine leaves job.Execute without Execute having returned:
\* it is out of Execute and no result of the job has been logged.
WorkerMovesOn(w) ==
    /\ WorkerStep(w)
    /\ ~Executing(w)'
    /\ jobLog' = jobLog

\* C25: when the deadline fires while a job's Execute has not returned, the
\* worker stops waiting on the result: from then on it can go back to its select
\* and dequeue the next job without the job's Execute having returned.
C25_WorkerMovesOnAfterDeadline ==
    \A w \in PoolIndices : PastDeadline(w) => ENABLED WorkerMovesOn(w)

\* What the code does: the deadline changes nothing for the worker, which
\* leaves Execute only by the step in which Execute returns and its result is
\* logged, and receives no job until then; the job is not aborted.
C25_WorkerWaitsForExecute ==
    /\ [][\A w \in PoolIndices :
             (Executing(w) /\ ~Executing(w)')
                 => /\ LogLine(workerPool[w].job) \in jobLog'
                    /\ LogLine(workerPool[w].job) \notin jobLog]_vars
    /\ [][deadlineFired' # deadlineFired
             => UNCHANGED <<workerPool, jobQueue, wg, isRunning, jobLog, histVars>>]_vars
    /\ [][\A w \in PoolIndices :
             (Executing(w) /\ Executing(w)')
                 => /\ workerPool'[w].job = workerPool[w].job
                    /\ \A j \in JobIds : (w \in recvBy'[j]) <=> (w \in recvBy[j])]_vars

\* ------------------------------------------------------------ C26
\* Stop has been called on the running ScheduledJob and has returned, and no
\* Start call has set it running again since.
StoppedSched == sCancelled /\ ~sIsRunning

\* C26: after Stop has returned, the ScheduledJob starts no further
\* DispatchJob call: no step taken while it is stopped makes a jobWrapper and
\* hands it to the Dispatcher.
C26_NoDispatchAfterStop ==
    [][StoppedSched => sDispatched' = sDispatched]_vars

\* ------------------------------------------------------------ C28
\* The goroutines of the ScheduledJob that have not returned.
AliveLoops == {l \in 1..Len(loops) : loops[l].st # "exited"}

\* C28: after any sequence of Start and Stop calls, whenever the running flag
\* is true a goroutine of the ScheduledJob is alive (to receive the later ticks
\* and dispatch a job on each).
C28_RunningHasLiveLoop == sIsRunning => AliveLoops # {}

\* What the code does: a ScheduledJob that has never been stopped has its
\* goroutine alive while the flag is true, and that goroutine cannot exit.
C28_LiveLoopUntilFirstStop ==
    (sIsRunning /\ ~sCancelled) =>
        /\ AliveLoops # {}
        /\ \A l \in LoopIndices : ~ENABLED LoopExit(l)

\* ------------------------------------------------------------ C27
\* What a DispatchJob call that is in its send can do next, or waits for on a
\* full queue: its own send, a worker taking a job, a worker's Execute
\* returning (every Execute terminates).
DispatchCanProceed(c) ==
    \/ DispatchSend(c)
    \/ \E w \in PoolIndices : WorkerReceive(w)
    \/ \E w \in PoolIndices : WorkerFinish(w)

\* C27: every DispatchJob call returns, also when Stop is called while the call
\* is in progress or blocked on a full queue: a call that is in its send is
\* never stuck, it can send or a worker can make the room it waits for.
C27_DispatchJobAlwaysReturns ==
    \A c \in Callers : pc[c] = "dispatch_send" => ENABLED DispatchCanProceed(c)

\* What the code does: a DispatchJob call is stuck only on a full queue whose
\* workers have all taken their stop signal.
C27_StuckOnlyOnFullQueueWithoutWorkers ==
    \A c \in Callers :
        (pc[c] = "dispatch_send" /\ ~ENABLED DispatchCanProceed(c))
            => /\ Len(jobQueue) = QueueCap
               /\ stops >= 1
               /\ ActiveLoops = {}

\* ------------------------------------------------------------ C30
\* C30: GetLimiter keeps one limiter per IP under concurrency: for any
\* interleaving of GetLimiter calls, the calls with the same IP all return the
\* same limiter, and a limiter stored for an IP is never replaced by another.
C30_OneLimiterPerIP ==
    /\ [](\A r1 \in returnedLimiters : \A r2 \in returnedLimiters :
             r1.ip = r2.ip => r1.limiter = r2.limiter)
    /\ [][\A ip \in IPs : ips[ip] # 0 => ips'[ip] = ips[ip]]_vars

\* What the code does: the map is read and written under the lock, every call
\* returns a limiter made by rate.NewLimiter that was stored for its IP, and
\* once a call for an IP has returned the map has an entry for that IP.
C30_ReturnedLimiterWasStored ==
    /\ iMu.writer # 0 => iMu.readers = {}
    /\ \A r \in returnedLimiters : r.limiter \in 1..limitersMade /\ ips[r.ip] # 0
    /\ \A ip \in IPs : ips[ip] \in 0..limitersMade
    /\ limitersMade <= MaxLimiters

\* ------------------------------------------------------------ C21
\* The shutdown sequence: the HTTP server is stopped before the wait, the wait
\* ends with every request served or with the timeout elapsed, the database is
\* closed only after the wait, and the process exits only after that, with
\* status 0.
ShutdownInOrder ==
    /\ mainPc \in {"polling", "wait", "close_db", "exit", "exited"} => ~listening
    /\ mainPc \in {"close_db", "exit", "exited"} => waitedFor # "none"
    /\ waitedFor = "requests" => inFlight = 0
    /\ waitedFor = "timeout" => timeoutElapsed
    /\ dbClosed => waitedFor # "none"
    /\ mainPc \in {"exit", "exited"} => dbClosed
    /\ ~Running <=> mainPc = "exited"
    /\ ~Running => exitCode = 0

\* C21: after a termination signal the process stops the HTTP server, then
\* waits until every request in flight has completed or the shutdown timeout
\* has elapsed, only then closes the database connection, and exits with
\* status 0; it never exits before that wait.
C21_GracefulShutdown == ShutdownInOrder

\* What the code does: the main function of cmd/api/main.go shuts down in that
\* order.
C21_ApiMainGracefulShutdown == program = ApiMain => ShutdownInOrder

====
